---------------------------- MODULE Spec2Model ----------------------------
(***************************************************************************)
(* Model of the animation engine of streamdeck-companion-ts:               *)
(*   src/streamdeck/animator.ts  (class Animator and its color helpers)    *)
(*   src/streamdeck/client.ts    (executeBatch, updateButtonStyleBody,     *)
(*                                rgbToHex, hexToRgb)                      *)
(*                                                                         *)
(* Strings are sequences of one-character strings, so that parsing,        *)
(* formatting and upper-casing are computed and not assumed.               *)
(* Numbers are triples <<n, d, eps>>: the rational n/d (d > 0), NaN as     *)
(* <<0,0,0>> and +Infinity as <<1,0,0>>; eps is the sign of the deviation  *)
(* of the IEEE double from n/d (it is non-zero only for the sine of a      *)
(* non-zero multiple of pi, which Math.sin does not return as 0).          *)
(***************************************************************************)
EXTENDS Integers, Sequences, FiniteSets, TLC

\* ------------------------------------------------------------------------
\* Bounds of the model
\* ------------------------------------------------------------------------

\* how many animations one run creates (ids anim-1 .. anim-MaxAnims)
MaxAnims == 2
\* how many times the clock advances (by one timer interval each)
MaxAdvances == 2

\* updateButtonStyle calls in a run
MaxUpdates == 3

\* the animate() calls made
MaxAnimates == 2

\* the calls made of one stop function
MaxStopCalls == 2

\* the chains made by button()
MaxChains == 2

\* the calls of when, unless, whenAsync and unlessAsync on one chain
MaxSetters == 2

\* the actions queued on one chain
MaxOps == 1

\* the getAnimator calls made on the client
MaxGetCalls == 3

\* the sockets a RemoteClient makes
MaxSockets == 3

\* the reconnect sequences a RemoteClient starts
MaxSequences == 2

\* the sendCommand calls of the user
MaxCommands == 2

\* RemoteConfig.reconnectAttempts
ReconnectAttempts == 2

\* the largest number of retries a client is configured with
MaxRetries == 3

\* the makeRequest calls made in one run
MaxRequests == 3

\* the fps the Animator is constructed with: its timer then fires every
\* 500 ms, half of the positive durations used, which keeps every sine
\* argument on a multiple of pi/2
RequestedFps == 2

\* ------------------------------------------------------------------------
\* JavaScript values
\* ------------------------------------------------------------------------

\* null, the result of a failed hexToRgb
Null == << >>

NaN == << 0, 0, 0 >>

Infinity == << 1, 0, 0 >>

Int2Num(k) == << k, 1, 0 >>

IsNaN(x) == x[1] = 0 /\ x[2] = 0

IsInfinite(x) == x[1] # 0 /\ x[2] = 0

\* record.field ?? default, for an optional field of an object
Opt(record, field, default) ==
  IF field \in DOMAIN record THEN record[field] ELSE default

\* { ...record, field: value }
Spread(record, field, value) ==
  [k \in DOMAIN record \cup {field} |-> IF k = field THEN value ELSE record[k]]

Sgn(k) == IF k > 0 THEN 1 ELSE IF k < 0 THEN -1 ELSE 0

\* x + y, x - y, x * y on finite numbers or NaN; at most one operand
\* carries a deviation
NumAdd(x, y) ==
  IF IsNaN(x) \/ IsNaN(y) THEN NaN
  ELSE << x[1] * y[2] + y[1] * x[2], x[2] * y[2], Sgn(x[3] + y[3]) >>

NumNeg(x) == IF IsNaN(x) THEN NaN ELSE << -x[1], x[2], -x[3] >>

NumSub(x, y) == NumAdd(x, NumNeg(y))

NumMul(x, y) ==
  IF IsNaN(x) \/ IsNaN(y) THEN NaN
  ELSE << x[1] * y[1], x[2] * y[2],
          Sgn(Sgn(x[1]) * y[3] + Sgn(y[1]) * x[3]) >>

\* Math.abs(x)
MathAbs(x) == IF IsNaN(x) \/ x[1] >= 0 THEN x ELSE NumNeg(x)

\* a / b for integers a >= 0, b >= 0 (0/0 is NaN, a/0 is Infinity)
Divide(a, b) ==
  IF b = 0 THEN (IF a = 0 THEN NaN ELSE Infinity) ELSE << a, b, 0 >>

\* a % b for integers a >= 0, b >= 0 (a % 0 is NaN)
Remainder(a, b) == IF b = 0 THEN NaN ELSE << a % b, 1, 0 >>

\* Math.min(1, x)
MathMin1(x) ==
  IF IsNaN(x) THEN NaN
  ELSE IF IsInfinite(x) THEN Int2Num(1)
  ELSE IF x[1] <= x[2] THEN x ELSE Int2Num(1)

\* Math.floor(x) of a finite number, as an integer
FloorInt(x) == x[1] \div x[2]

\* Math.round(x): the nearest integer, a tie going up; a double that lies
\* just below a tie goes down
MathRound(x) ==
  IF IsNaN(x) THEN NaN
  ELSE LET up  == (2 * x[1] + x[2]) \div (2 * x[2])
           tie == (2 * x[1] + x[2]) % (2 * x[2]) = 0
       IN  IF tie /\ x[3] < 0 THEN Int2Num(up - 1) ELSE Int2Num(up)

\* Math.max(a, Math.min(b, v)) for integers a, b and a finite or NaN v
MaxMin(a, b, v) ==
  IF IsNaN(v) THEN NaN
  ELSE LET m == IF v[1] < b * v[2] THEN v ELSE Int2Num(b)
       IN  IF m[1] > a * m[2] THEN m ELSE Int2Num(a)

\* ------------------------------------------------------------------------
\* Strings
\* ------------------------------------------------------------------------

LowerHex == << "0", "1", "2", "3", "4", "5", "6", "7", "8", "9",
               "a", "b", "c", "d", "e", "f" >>

UpperHex == << "0", "1", "2", "3", "4", "5", "6", "7", "8", "9",
               "A", "B", "C", "D", "E", "F" >>

LowerLetters == << "a", "b", "c", "d", "e", "f", "n" >>

UpperLetters == << "A", "B", "C", "D", "E", "F", "N" >>

\* String.prototype.toUpperCase, on the letters the model uses
CharToUpper(c) ==
  IF \E i \in 1..Len(LowerLetters) : LowerLetters[i] = c
  THEN UpperLetters[CHOOSE i \in 1..Len(LowerLetters) : LowerLetters[i] = c]
  ELSE c

toUpperCase(s) == [i \in 1..Len(s) |-> CharToUpper(s[i])]

\* [a-f\d] under the i flag
IsHexChar(c) ==
  \E i \in 1..16 : LowerHex[i] = c \/ UpperHex[i] = c

HexValue(c) == (CHOOSE i \in 1..16 : LowerHex[i] = c \/ UpperHex[i] = c) - 1

\* parseInt(two hex characters, 16)
parseInt16(s) == 16 * HexValue(s[1]) + HexValue(s[2])

\* Number.prototype.toString(16) of an integer 0..255, or of NaN
toString16(v) ==
  IF IsNaN(v) THEN << "N", "a", "N" >>
  ELSE LET k == v[1] \div v[2]
       IN  IF k < 16 THEN << LowerHex[k + 1] >>
           ELSE << LowerHex[(k \div 16) + 1], LowerHex[(k % 16) + 1] >>

\* ------------------------------------------------------------------------
\* Color helpers
\* ------------------------------------------------------------------------

\* StreamDeckClient.rgbToHex: toHex of each channel
PadHex(hex) == IF Len(hex) = 1 THEN << "0" >> \o hex ELSE hex

toHex(n) == PadHex(toString16(MathRound(MaxMin(0, 255, n))))

rgbToHex(r, g, b) == toUpperCase(<< "#" >> \o toHex(r) \o toHex(g) \o toHex(b))

\* StreamDeckClient.hexToRgb: /^#?([a-f\d]{2})([a-f\d]{2})([a-f\d]{2})$/i
hexToRgb(hex) ==
  LET body == IF Len(hex) > 0 /\ hex[1] = "#" THEN Tail(hex) ELSE hex
  IN  IF Len(body) = 6 /\ \A i \in 1..6 : IsHexChar(body[i])
      THEN << parseInt16(SubSeq(body, 1, 2)),
              parseInt16(SubSeq(body, 3, 4)),
              parseInt16(SubSeq(body, 5, 6)) >>
      ELSE Null

\* animator.ts clamp(v, a = 0, b = 255)
clamp(v) == MaxMin(0, 255, MathRound(v))

\* a color model that takes a string that is no hex color for white
RgbOrBlack_White(parsed) == IF parsed = Null THEN << 255, 255, 255 >> ELSE parsed

\* animator.ts mixColors(hexA, hexB, t)
\* hexToRgb(hex) ?? { r: 0, g: 0, b: 0 }
RgbOrBlack(parsed) == IF parsed = Null THEN << 0, 0, 0 >> ELSE parsed

\* one channel mixed from b towards a: clamp(b + (a - b) * t)
MixChannel_Swapped(a, b, t) ==
  clamp(NumAdd(Int2Num(b), NumMul(Int2Num(a - b), t)))

\* one channel: clamp(a + (b - a) * t)
MixChannel(a, b, t) ==
  clamp(NumAdd(Int2Num(a), NumMul(Int2Num(b - a), t)))

\* the mix of the parsed colors a and b
MixRgb(a, b, t) ==
  rgbToHex(MixChannel(a[1], b[1], t),
           MixChannel(a[2], b[2], t),
           MixChannel(a[3], b[3], t))

mixColors(hexA, hexB, t) ==
  MixRgb(RgbOrBlack(hexToRgb(hexA)), RgbOrBlack(hexToRgb(hexB)), t)

\* animator.ts colorsEqual(a, b)
colorsEqual(a, b) == toUpperCase(a) = toUpperCase(b)

\* hslToHex: c = (1 - Math.abs(2 * l - 1)) * s
Chroma(s, l) ==
  NumMul(NumSub(Int2Num(1),
                MathAbs(NumSub(NumMul(Int2Num(2), l), Int2Num(1)))), s)

\* hslToHex: hh = (h / 60) % 6, in sixtieths
HueSector(h) ==
  IF IsNaN(h) THEN NaN ELSE << (h[1] \div h[2]) % 360, 60, 0 >>

\* hslToHex: x = c * (1 - Math.abs((hh % 2) - 1))
HueX(c, hh) ==
  NumMul(c, NumSub(Int2Num(1),
                   MathAbs(NumSub(IF IsNaN(hh) THEN NaN
                                  ELSE << hh[1] % 120, 60, 0 >>,
                                  Int2Num(1)))))

\* hslToHex: [r1, g1, b1] by the sector hh lies in; no comparison holds
\* for NaN, which leaves the last branch
HueRgb1(c, x, hh) ==
  LET z == Int2Num(0)
      k == IF IsNaN(hh) THEN 5 ELSE hh[1] \div 60
  IN  CASE k = 0 -> << c, x, z >>
        [] k = 1 -> << x, c, z >>
        [] k = 2 -> << z, c, x >>
        [] k = 3 -> << z, x, c >>
        [] k = 4 -> << x, z, c >>
        [] OTHER -> << c, z, x >>

\* hslToHex: one channel, clamp((v1 + m) * 255)
HslChannel(v1, m) == clamp(NumMul(NumAdd(v1, m), Int2Num(255)))

HslRgb(rgb1, m) ==
  rgbToHex(HslChannel(rgb1[1], m), HslChannel(rgb1[2], m),
           HslChannel(rgb1[3], m))

\* hslToHex: m = l - c / 2
HslWith(c, hh, l) ==
  HslRgb(HueRgb1(c, HueX(c, hh), hh), NumSub(l, NumMul(c, << 1, 2, 0 >>)))

\* animator.ts hslToHex(h, s, l); h is an integer >= 0 or NaN
hslToHex(h, s, l) == HslWith(Chroma(s, l), HueSector(h), l)

\* Math.sin(progress * Math.PI * 2 * repeats) where the argument is a
\* multiple of pi/2: exactly 1 or -1 at the odd multiples, 0 at 0, and a
\* double just above 0 at odd multiples of pi, just below 0 at the non-zero
\* even multiples of pi
SinTurns(progress, repeats) ==
  IF IsNaN(progress) THEN NaN
  ELSE LET q4 == 4 * progress[1] * repeats
           q  == q4 \div progress[2]
       IN  CASE q4 % progress[2] = 0 /\ q % 4 = 0 ->
                  << 0, 1, IF q = 0 THEN 0 ELSE -1 >>
             [] q4 % progress[2] = 0 /\ q % 4 = 1 -> << 1, 1, 0 >>
             [] q4 % progress[2] = 0 /\ q % 4 = 2 -> << 0, 1, 1 >>
             [] q4 % progress[2] = 0 /\ q % 4 = 3 -> << -1, 1, 0 >>

\* ------------------------------------------------------------------------
\* State
\* ------------------------------------------------------------------------

VARIABLES
  timer,            \* Animator.timer is set (the interval is active)
  intervals,        \* the intervals made by setInterval and not cleared
  due,              \* an expiry of the interval is waiting to run tick()
  animations,       \* Animator.animations, a Map in insertion order
  idCounter,        \* Animator.idCounter
  now,              \* Date.now()
  batches,          \* the executeBatch invocations that have not finished:
                    \* the operations left (the first is the current one),
                    \* whether the current one waits for its response or for
                    \* the pause after it, and the failures logged so far
  buttonStateCache, \* StreamDeckClient.buttonStateCache
  cachingEnabled,   \* StreamDeckClient.cachingEnabled
  lastCall,         \* the last call into the Animator: the value returned,
                    \* whether the call threw, and whether it was a
                    \* stopAnimation with an id that was not registered
  calls,            \* the executeBatch calls the last tick made
  requests,         \* the style requests of updateButtonStyle calls that
                    \* wait for their response
  events,           \* the number of style events emitted to the listeners
  lastStyleCall,    \* the last updateButtonStyle call: how many were made,
                    \* its arguments, whether it sent a request, and
                    \* whether caching was enabled when it was made
  flag,             \* what the caller's predicate does when it is called
                    \* now: returns true, returns false, or throws
  handles,          \* the looping animate() calls that returned a stop
                    \* function: the id in its closure, watcherStop,
                    \* whether the poll loop was started and has not
                    \* exited, and how often the function was called
  run,              \* the single run (runOnce) of an animate() call in
                    \* progress: the updates left, or Null
  lastAnimate,      \* the last animate() call: how many were made, what
                    \* its third argument was, loopFlag, finalEnabled
  chain,            \* the ButtonChain in use: its fields, where its
                    \* apply() stands, what the condition set last
                    \* evaluates to, and the requests apply() has made
  helperCall,       \* the last call of a static helper: the function,
                    \* its arguments and what it returned
  animatorField,    \* StreamDeckClient._animator: the Animator instance it
                    \* holds, 0 while it is undefined
  getCalls,         \* the getAnimator calls made: whether the call waits
                    \* for the import or has returned, and the instance
                    \* it returned
  engines,          \* the Animator instances constructed: how many
                    \* animations each has registered (its timer runs
                    \* when it has any)
  connected,        \* RemoteClient.connected
  socket,           \* RemoteClient.socket: the socket it holds, 0 for null
  sockets,          \* the sockets made by connectTcp: the state of each,
                    \* the reconnect sequence that awaits its connect()
                    \* (0 when the user or sendCommand awaits it), and
                    \* whether the timeout of that connect() is pending
  reconnectTimer,   \* RemoteClient.reconnectTimer: the sequence whose timer
                    \* handle it holds, 0 for null
  sequences,        \* the reconnect sequences started by attemptReconnect:
                    \* attempts counted, connections tried, events emitted
  messageQueue,     \* RemoteClient.messageQueue
  flushTimers,      \* the commands flushMessageQueue has set timers for
  written,          \* the commands handed to socket.write, in that order
  issued,           \* the sendCommand calls of the user: the k-th carries
                    \* command k
  userDisconnected, \* the last call of the user among connect, disconnect
                    \* and sendCommand was disconnect
  http              \* the makeRequest invocation in progress or the last
                    \* one made: retries, the attempt it is in, whether it
                    \* waits for fetch or for its backoff, the fetch calls
                    \* and the backoff waits it has made, its last error
                    \* and how it ended

vars == << timer, intervals, due, animations, idCounter, now, batches, buttonStateCache,
           cachingEnabled, lastCall, calls, requests, events, lastStyleCall,
           flag, handles, run, lastAnimate, chain, helperCall, http,
           animatorField, getCalls, engines,
           connected, socket, sockets, reconnectTimer, sequences,
           messageQueue, flushTimers, written, issued, userDisconnected >>

animatorVars == << timer, intervals, due, animations, idCounter >>

clientVars == << batches, buttonStateCache, cachingEnabled >>

apiVars == << requests, events, lastStyleCall >>

fluentVars == << flag, handles, run, lastAnimate, chain >>

\* the variables of getAnimator
getterVars == << animatorField, getCalls, engines >>

\* the variables of RemoteClient
remoteVars == << connected, socket, sockets, reconnectTimer, sequences,
                messageQueue, flushTimers, written, issued, userDisconnected >>

\* the variables of the request layer, of getAnimator and of RemoteClient
sideVars == << http, getterVars, remoteVars >>

\* the variables of the Animator, the style transport, the fluent API and
\* the static helpers
coreVars == << animatorVars, now, helperCall, clientVars, lastCall, calls, apiVars,
              fluentVars >>

\* a constructor that does not cap the frame rate at 60
ConstructFps_NoCap(requested) ==
  IF requested < 1 THEN 1 ELSE requested

\* Animator constructor: this.fps for the fps it is given
ConstructFps(requested) == MaxMin(1, 60, MathRound(Int2Num(requested)))[1]

\* Animator constructor: this.tickInterval
ConstructTickInterval(f) == MathRound(Divide(1000, f))[1]

fps == ConstructFps(RequestedFps)

tickInterval == ConstructTickInterval(fps)

\* ------------------------------------------------------------------------
\* Inputs
\* ------------------------------------------------------------------------

Black == << "#", "0", "0", "0", "0", "0", "0" >>

White == << "#", "F", "F", "F", "F", "F", "F" >>

\* white, written without '#' and in lower case
LowerWhite == << "f", "f", "f", "f", "f", "f" >>

Button(c) == [page |-> 1, row |-> 0, column |-> c]

\* the buttons each builder is called for: flashes and fades share a
\* button, rainbows have their own
FlashPositions == { Button(0) }

FadePositions == { Button(0) }

RainbowPositions == { Button(1) }

Styles ==
  { [text |-> << "H", "i" >>, bgcolor |-> Black, color |-> White, size |-> 18] }

FlashOptions ==
  { [duration |-> 1000, intervals |-> 2, flashColor |-> White] }

FadeOptions ==
  { [fromColor |-> Black, toColor |-> Black],
    [toColor |-> LowerWhite, loop |-> TRUE] }

RainbowOptions == { [duration |-> 0, loop |-> FALSE] }

\* ------------------------------------------------------------------------
\* Animator
\* ------------------------------------------------------------------------

\* the key `anim-${n}`
AnimId(n) == << "anim-", n >>

Ids(anims) == { anims[i].id : i \in 1..Len(anims) }

\* Map.prototype.set
MapSet(map, id, value) ==
  IF id \in Ids(map)
  THEN [i \in 1..Len(map) |-> IF map[i].id = id THEN value ELSE map[i]]
  ELSE Append(map, value)

\* a delete written as splice(indexOf(id), 1) on an array of entries: for
\* an id that is not there indexOf is -1 and the last entry is removed
MapDelete_Splice(map, id) ==
  IF id \in Ids(map) THEN SelectSeq(map, LAMBDA a : a.id # id)
  ELSE IF Len(map) = 0 THEN map ELSE SubSeq(map, 1, Len(map) - 1)

\* Map.prototype.delete
MapDelete(map, id) == SelectSeq(map, LAMBDA a : a.id # id)

\* a start without the early return: every call makes an interval and
\* this.timer refers to the last one made
start_Unguarded ==
  [timer |-> TRUE, due |-> IF timer THEN due ELSE FALSE,
   intervals |-> intervals + 1]

\* Animator.start: the timer, the pending expiry and the intervals after
\* the call
start ==
  [timer |-> TRUE, due |-> IF timer THEN due ELSE FALSE,
   intervals |-> IF timer THEN intervals ELSE intervals + 1]

\* Animator.stop: clears the interval this.timer refers to
stop ==
  [timer |-> FALSE, due |-> FALSE,
   intervals |-> IF timer THEN intervals - 1 ELSE intervals]

\* createFlash with the default of pulse(): two swings when the caller
\* gives no intervals
FlashDefaults_TwoIntervals(originalStyle, options) ==
  [duration   |-> Opt(options, "duration", 1000),
   loop       |-> Opt(options, "loop", FALSE),
   fps        |-> Opt(options, "fps", fps),
   flashColor |-> Opt(options, "flashColor", White),
   intervals  |-> Opt(options, "intervals", 2),
   fromColor  |-> Opt(options, "fromColor", Black),
   toColor    |-> Opt(options, "toColor", Black),
   saturation |-> Opt(options, "saturation", Int2Num(1)),
   lightness  |-> Opt(options, "lightness", << 1, 2, 0 >>)]

FlashDefaults(originalStyle, options) ==
  [duration   |-> Opt(options, "duration", 1000),
   loop       |-> Opt(options, "loop", FALSE),
   fps        |-> Opt(options, "fps", fps),
   flashColor |-> Opt(options, "flashColor", White),
   intervals  |-> Opt(options, "intervals", 4),
   fromColor  |-> Opt(options, "fromColor", Black),
   toColor    |-> Opt(options, "toColor", Black),
   saturation |-> Opt(options, "saturation", Int2Num(1)),
   lightness  |-> Opt(options, "lightness", << 1, 2, 0 >>)]

FadeDefaults(originalStyle, options) ==
  [duration   |-> Opt(options, "duration", 1000),
   loop       |-> Opt(options, "loop", FALSE),
   fps        |-> Opt(options, "fps", fps),
   flashColor |-> Opt(options, "flashColor", White),
   intervals  |-> Opt(options, "intervals", 1),
   fromColor  |-> Opt(options, "fromColor", Opt(originalStyle, "bgcolor", Black)),
   toColor    |-> Opt(options, "toColor", Black),
   saturation |-> Opt(options, "saturation", Int2Num(1)),
   lightness  |-> Opt(options, "lightness", << 1, 2, 0 >>)]

RainbowDefaults(originalStyle, options) ==
  [duration   |-> Opt(options, "duration", 3000),
   loop       |-> Opt(options, "loop", TRUE),
   fps        |-> Opt(options, "fps", fps),
   flashColor |-> Opt(options, "flashColor", White),
   intervals  |-> Opt(options, "intervals", 1),
   fromColor  |-> Opt(options, "fromColor", Black),
   toColor    |-> Opt(options, "toColor", Black),
   saturation |-> Opt(options, "saturation", Int2Num(1)),
   lightness  |-> Opt(options, "lightness", << 1, 2, 0 >>)]

\* a builder that names the entry after the size of the registry instead
\* of the counter
Register_IdFromSize(type, position, originalStyle, opts) ==
  LET id == AnimId(Len(animations) + 1)
  IN  /\ idCounter <= MaxAnims
      /\ idCounter' = idCounter + 1
      /\ animations' = MapSet(animations, id,
                               [id            |-> id,
                                type          |-> type,
                                position      |-> position,
                                options       |-> opts,
                                startTime     |-> now,
                                originalStyle |-> originalStyle])
      /\ timer' = start.timer
      /\ intervals' = start.intervals
      /\ due' = start.due
      /\ lastCall' = [returned |-> id, threw |-> FALSE, unknownId |-> FALSE]
      /\ UNCHANGED << now, helperCall, sideVars, clientVars, calls >>
      /\ UNCHANGED apiVars

\* a builder that sends the base style at once, before the first tick
Register_SendsBaseStyle(type, position, originalStyle, opts) ==
  LET id == AnimId(idCounter)
      op == [action |-> "style", position |-> position,
             data |-> originalStyle, anim |-> id]
  IN  /\ idCounter <= MaxAnims
      /\ idCounter' = idCounter + 1
      /\ animations' = MapSet(animations, id,
                               [id            |-> id,
                                type          |-> type,
                                position      |-> position,
                                options       |-> opts,
                                startTime     |-> now,
                                originalStyle |-> originalStyle])
      /\ timer' = start.timer
      /\ intervals' = start.intervals
      /\ due' = start.due
      /\ lastCall' = [returned |-> id, threw |-> FALSE, unknownId |-> FALSE]
      /\ calls' = << << op >> >>
      /\ UNCHANGED << now, helperCall, sideVars, clientVars >>
      /\ UNCHANGED apiVars

\* the common part of createFlash, createFade and createRainbow: take the
\* next id, register the entry, start the timer, return the id
Register(type, position, originalStyle, opts) ==
  LET id == AnimId(idCounter)
  IN  /\ idCounter <= MaxAnims
      /\ idCounter' = idCounter + 1
      /\ animations' = MapSet(animations, id,
                               [id            |-> id,
                                type          |-> type,
                                position      |-> position,
                                options       |-> opts,
                                startTime     |-> now,
                                originalStyle |-> originalStyle])
      /\ timer' = start.timer
      /\ intervals' = start.intervals
      /\ due' = start.due
      /\ lastCall' = [returned |-> id, threw |-> FALSE, unknownId |-> FALSE]
      /\ UNCHANGED << now, helperCall, sideVars, clientVars, calls >>
      /\ UNCHANGED apiVars

\* the builders called by a user of the Animator
createFlash(position, originalStyle, options) ==
  /\ Register("flash", position, originalStyle, FlashDefaults(originalStyle, options))
  /\ UNCHANGED fluentVars

createFade(position, originalStyle, options) ==
  /\ Register("fade", position, originalStyle, FadeDefaults(originalStyle, options))
  /\ UNCHANGED fluentVars

createRainbow(position, originalStyle, options) ==
  /\ Register("rainbow", position, originalStyle, RainbowDefaults(originalStyle, options))
  /\ UNCHANGED fluentVars

\* stopAnimation without the check that stops the timer when the registry
\* has become empty
stopAnimation_KeepsTimer(id) ==
  /\ animations' = MapDelete(animations, id)
  /\ lastCall' = [returned |-> << >>, threw |-> FALSE,
                  unknownId |-> id \notin Ids(animations)]
  /\ UNCHANGED << timer, intervals, due, idCounter, now, helperCall, sideVars, clientVars, calls >>
  /\ UNCHANGED apiVars
  /\ UNCHANGED fluentVars

\* the body of Animator.stopAnimation: the registry without the entry of
\* id, and the timer stopped when the registry has become empty
Delete(id) ==
  LET left == MapDelete(animations, id)
  IN  /\ animations' = left
      /\ timer' = IF Len(left) = 0 THEN stop.timer ELSE timer
      /\ intervals' = IF Len(left) = 0 THEN stop.intervals ELSE intervals
      /\ due' = IF Len(left) = 0 THEN stop.due ELSE due
      /\ lastCall' = [returned |-> << >>, threw |-> FALSE,
                      unknownId |-> id \notin Ids(animations)]
      /\ UNCHANGED << idCounter, now, helperCall, sideVars, clientVars, calls >>
      /\ UNCHANGED apiVars

\* stopAnimation called by a user of the Animator
stopAnimation(id) ==
  /\ Delete(id)
  /\ UNCHANGED fluentVars

stopAll ==
  /\ animations' = << >>
  /\ timer' = stop.timer
  /\ intervals' = stop.intervals
  /\ due' = stop.due
  /\ lastCall' = [returned |-> << >>, threw |-> FALSE, unknownId |-> FALSE]
  /\ UNCHANGED << idCounter, now, helperCall, sideVars, clientVars, calls >>
  /\ UNCHANGED apiVars
  /\ UNCHANGED fluentVars

\* tick: elapsed, and progress after the loop wrap
Elapsed(anim, t) == t - anim.startTime

Progress(anim, t) ==
  LET elapsed  == Elapsed(anim, t)
      duration == anim.options.duration
  IN  IF anim.options.loop
      THEN (IF duration = 0 THEN NaN ELSE << elapsed % duration, duration, 0 >>)
      ELSE MathMin1(Divide(elapsed, duration))

\* the flash factor taken as the sine itself (0 at progress 0 and 1), the
\* other types as in the code
NextBg_SineFactor(anim, t) ==
  LET base     == Opt(anim.originalStyle, "bgcolor", Black)
      progress == Progress(anim, t)
  IN  CASE anim.type = "flash" ->
             LET repeats == IF anim.options.intervals > 1
                            THEN anim.options.intervals ELSE 1
             IN  mixColors(base, anim.options.flashColor,
                           MathAbs(SinTurns(progress, repeats)))
        [] anim.type = "fade" ->
             mixColors(anim.options.fromColor, anim.options.toColor, progress)
        [] anim.type = "rainbow" ->
             LET period == anim.options.duration
                 tt     == IF period = 0 THEN NaN
                           ELSE << Elapsed(anim, t) % period, period, 0 >>
                 hue    == IF IsNaN(tt) THEN NaN
                           ELSE Int2Num(FloorInt(NumMul(tt, Int2Num(360))))
             IN  hslToHex(hue, anim.options.saturation, anim.options.lightness)

\* tick: the color of the frame, by animation type
NextBg(anim, t) ==
  LET base     == Opt(anim.originalStyle, "bgcolor", Black)
      progress == Progress(anim, t)
  IN  CASE anim.type = "flash" ->
             LET repeats == IF anim.options.intervals > 1
                            THEN anim.options.intervals ELSE 1
                 factor  == NumMul(<< 1, 2, 0 >>,
                                   NumAdd(Int2Num(1), SinTurns(progress, repeats)))
             IN  mixColors(base, anim.options.flashColor, factor)
        [] anim.type = "fade" ->
             mixColors(anim.options.fromColor, anim.options.toColor, progress)
        [] anim.type = "rainbow" ->
             LET period == anim.options.duration
                 tt     == IF period = 0 THEN NaN
                           ELSE << Elapsed(anim, t) % period, period, 0 >>
                 hue    == IF IsNaN(tt) THEN NaN
                           ELSE Int2Num(FloorInt(NumMul(tt, Int2Num(360))))
             IN  hslToHex(hue, anim.options.saturation, anim.options.lightness)

\* a tick that sends every computed frame, changed or not
Changed_Always(anim, nextBg) == TRUE

\* tick: !anim.lastSentBg || !colorsEqual(anim.lastSentBg, nextBg)
Changed(anim, nextBg) ==
  \/ "lastSentBg" \notin DOMAIN anim
  \/ anim.lastSentBg = << >>
  \/ ~colorsEqual(anim.lastSentBg, nextBg)

\* a tick that retires no animation
Finished_Never(anim, t) == FALSE

\* tick: !loop && elapsed >= duration
Finished(anim, t) ==
  ~anim.options.loop /\ Elapsed(anim, t) >= anim.options.duration

\* a frame that carries the background color alone
StyleOp_BgOnly(anim, nextBg) ==
  [action   |-> "style",
   position |-> anim.position,
   data     |-> [bgcolor |-> nextBg],
   anim     |-> anim.id]

\* the batch entry of a frame; `anim` names the animation it was computed
\* for (the code's object does not carry it)
StyleOp(anim, nextBg) ==
  [action   |-> "style",
   position |-> anim.position,
   data     |-> Spread(anim.originalStyle, "bgcolor", nextBg),
   anim     |-> anim.id]

\* tick: the body of the loop for one entry, given the frame color
\* computed for it; acc holds the registry and the batch built so far
Visit(anim, nextBg, acc) ==
  LET send == Changed(anim, nextBg)
      map1 == IF send
              THEN MapSet(acc.animations, anim.id,
                          Spread(anim, "lastSentBg", nextBg))
              ELSE acc.animations
  IN  [animations |-> IF Finished(anim, now)
                      THEN MapDelete(map1, anim.id) ELSE map1,
       ops        |-> IF send THEN Append(acc.ops, StyleOp(anim, nextBg))
                      ELSE acc.ops]

\* a loop by index over an array that a retirement splices: the entry
\* that follows a retired one moves into its place and is not visited
RECURSIVE TickLoop_IndexSkips(_, _, _)
TickLoop_IndexSkips(i, entries, acc) ==
  IF i > Len(entries) THEN acc
  ELSE TickLoop_IndexSkips(IF Finished(entries[i], now) THEN i + 2 ELSE i + 1,
                           entries,
                           Visit(entries[i], NextBg(entries[i], now), acc))

\* tick: the loop over this.animations.values(), from the i-th entry on;
\* an entry deleted while it is visited does not disturb the iteration
RECURSIVE TickLoop(_, _, _)
TickLoop(i, entries, acc) ==
  IF i > Len(entries) THEN acc
  ELSE TickLoop(i + 1, entries, Visit(entries[i], NextBg(entries[i], now), acc))

\* ------------------------------------------------------------------------
\* StreamDeckClient: the style transport
\* ------------------------------------------------------------------------

getButtonKey(position) == << position.page, position.row, position.column >>

getCachedButtonState(position) ==
  IF getButtonKey(position) \in DOMAIN buttonStateCache
  THEN buttonStateCache[getButtonKey(position)]
  ELSE [none \in {} |-> << >>]

\* a check that finds a change in every update
hasStyleChanges_Always(position, style) == TRUE

\* an update of the cache that does not look at cachingEnabled
updateCachedButtonState_Unguarded(position, style) ==
  LET currentState == getCachedButtonState(position)
      newState == [k \in DOMAIN currentState \cup DOMAIN style |->
                     IF k \in DOMAIN style THEN style[k] ELSE currentState[k]]
      key == getButtonKey(position)
  IN  [k \in DOMAIN buttonStateCache \cup {key} |->
         IF k = key THEN newState ELSE buttonStateCache[k]]

\* an update of the cache that puts the update in place of the cached
\* state
updateCachedButtonState_Replaces(position, style) ==
  IF ~cachingEnabled THEN buttonStateCache
  ELSE [k \in DOMAIN buttonStateCache \cup {getButtonKey(position)} |->
          IF k = getButtonKey(position) THEN style ELSE buttonStateCache[k]]

hasStyleChanges(position, style) ==
  IF ~cachingEnabled THEN TRUE
  ELSE LET currentState == getCachedButtonState(position)
       IN  \E key \in DOMAIN style :
             key \notin DOMAIN currentState \/ currentState[key] # style[key]

\* updateCachedButtonState: the cache after the call
updateCachedButtonState(position, style) ==
  IF ~cachingEnabled THEN buttonStateCache
  ELSE LET currentState == getCachedButtonState(position)
           newState == [k \in DOMAIN currentState \cup DOMAIN style |->
                          IF k \in DOMAIN style THEN style[k] ELSE currentState[k]]
           key == getButtonKey(position)
       IN  [k \in DOMAIN buttonStateCache \cup {key} |->
              IF k = key THEN newState ELSE buttonStateCache[k]]

\* executeBatch reaching an operation: updateButtonStyleBody either returns
\* at once (nothing would change) and the 10 ms pause follows, or it sends
\* the request and waits for the response
RunOps(ops, errors) ==
  [ops    |-> ops,
   phase  |-> IF hasStyleChanges(Head(ops).position, Head(ops).data)
              THEN "request" ELSE "delay",
   errors |-> errors]

\* executeBatch moving on to the operation after the current one, having
\* logged `errors` failed operations so far; after the last operation the
\* invocation ends
Continue(i, errors) ==
  LET rest == Tail(batches[i].ops)
  IN  IF rest = << >>
      THEN SubSeq(batches, 1, i - 1) \o SubSeq(batches, i + 1, Len(batches))
      ELSE [batches EXCEPT ![i] = RunOps(rest, errors)]

\* a tick without the early return on an empty registry that hands its
\* batch to executeBatch whether or not it holds a frame
tick_Unguarded ==
  /\ timer /\ due
  /\ \E done \in { TickLoop(1, animations,
                               [animations |-> animations, ops |-> << >>]) } :
         /\ animations' = done.animations
         /\ batches' = IF Len(done.ops) > 0
                       THEN Append(batches, RunOps(done.ops, 0))
                       ELSE batches
         /\ calls' = << done.ops >>
  /\ timer' = timer
  /\ intervals' = intervals
  /\ due' = FALSE
  /\ UNCHANGED << idCounter, now, helperCall, sideVars, buttonStateCache, cachingEnabled, lastCall >>
  /\ UNCHANGED apiVars
  /\ UNCHANGED fluentVars

\* a tick that calls executeBatch once for every frame instead of once
\* for the batch
tick_CallPerFrame ==
  /\ timer /\ due
  /\ IF Len(animations) = 0
     THEN /\ timer' = stop.timer
          /\ intervals' = stop.intervals
          /\ due' = stop.due
          /\ calls' = << >>
          /\ UNCHANGED << animations, batches >>
     ELSE \E done \in { TickLoop(1, animations,
                                    [animations |-> animations, ops |-> << >>]) } :
              /\ animations' = done.animations
              /\ batches' = batches \o
                   [k \in 1..Len(done.ops) |-> RunOps(<< done.ops[k] >>, 0)]
              /\ calls' = [k \in 1..Len(done.ops) |-> << done.ops[k] >>]
              /\ timer' = timer
              /\ intervals' = intervals
              /\ due' = FALSE
  /\ UNCHANGED << idCounter, now, helperCall, sideVars, buttonStateCache, cachingEnabled, lastCall >>
  /\ UNCHANGED apiVars
  /\ UNCHANGED fluentVars

\* Animator.tick, run by the interval timer
tick ==
  /\ timer /\ due
  /\ IF Len(animations) = 0
     THEN /\ timer' = stop.timer
          /\ intervals' = stop.intervals
          /\ due' = stop.due
          /\ calls' = << >>
          /\ UNCHANGED << animations, batches >>
     ELSE \E done \in { TickLoop(1, animations,
                                    [animations |-> animations, ops |-> << >>]) } :
              /\ animations' = done.animations
              /\ batches' = IF Len(done.ops) > 0
                            THEN Append(batches, RunOps(done.ops, 0))
                            ELSE batches
              /\ calls' = IF Len(done.ops) > 0 THEN << done.ops >> ELSE << >>
              /\ timer' = timer
              /\ intervals' = intervals
              /\ due' = FALSE
  /\ UNCHANGED << idCounter, now, helperCall, sideVars, buttonStateCache, cachingEnabled, lastCall >>
  /\ UNCHANGED apiVars
  /\ UNCHANGED fluentVars

\* the request of the current operation of batch i succeeds: the cache is
\* updated, the style event is emitted and the 10 ms pause begins
RequestSucceeds(i) ==
  /\ batches[i].phase = "request"
  /\ buttonStateCache' = updateCachedButtonState(Head(batches[i].ops).position,
                                                  Head(batches[i].ops).data)
  /\ batches' = [batches EXCEPT ![i].phase = "delay"]
  /\ UNCHANGED << animatorVars, now, helperCall, sideVars, cachingEnabled, lastCall, calls >>
  /\ events' = events + 1
  /\ UNCHANGED << requests, lastStyleCall >>
  /\ UNCHANGED fluentVars

\* a failed request that ends the animation engine: the error reaches the
\* Animator, which stops its timer
RequestFails_StopsTimer(i) ==
  /\ batches[i].phase = "request"
  /\ batches' = Continue(i, batches[i].errors + 1)
  /\ timer' = stop.timer
  /\ intervals' = stop.intervals
  /\ due' = stop.due
  /\ UNCHANGED << animations, idCounter, now, helperCall, sideVars, buttonStateCache, cachingEnabled,
                  lastCall, calls >>
  /\ UNCHANGED apiVars
  /\ UNCHANGED fluentVars

\* a failed request that ends the executeBatch invocation: the error
\* leaves the loop and the operations that follow are not run
RequestFails_Rejects(i) ==
  /\ batches[i].phase = "request"
  /\ batches' = SubSeq(batches, 1, i - 1) \o SubSeq(batches, i + 1, Len(batches))
  /\ UNCHANGED << animatorVars, now, helperCall, sideVars, buttonStateCache, cachingEnabled,
                  lastCall, calls >>
  /\ UNCHANGED apiVars
  /\ UNCHANGED fluentVars

\* the request of the current operation of batch i fails: executeBatch
\* logs the error and goes on with the next operation; the promise the
\* tick holds does not reject
RequestFails(i) ==
  /\ batches[i].phase = "request"
  /\ batches' = Continue(i, batches[i].errors + 1)
  /\ UNCHANGED << animatorVars, now, helperCall, sideVars, buttonStateCache, cachingEnabled,
                  lastCall, calls >>
  /\ UNCHANGED apiVars
  /\ UNCHANGED fluentVars

\* the 10 ms pause after the current operation of batch i ends
PauseEnds(i) ==
  /\ batches[i].phase = "delay"
  /\ batches' = Continue(i, batches[i].errors)
  /\ UNCHANGED << animatorVars, now, helperCall, sideVars, buttonStateCache, cachingEnabled,
                  lastCall, calls >>
  /\ UNCHANGED apiVars
  /\ UNCHANGED fluentVars

\* Date.now() moves on by one timer interval; a running timer expires
Advance ==
  /\ now < MaxAdvances * tickInterval
  /\ now' = now + tickInterval
  /\ due' = timer
  /\ UNCHANGED << timer, intervals, animations, idCounter, clientVars, lastCall,
                  calls, helperCall, sideVars >>
  /\ UNCHANGED apiVars
  /\ UNCHANGED fluentVars

\* ------------------------------------------------------------------------
\* StreamDeckClient: style updates and cache controls
\* ------------------------------------------------------------------------

UpdatePositions == { Button(0) }

UpdateStyles ==
  { [text |-> << "H", "i" >>],
    [text |-> << "Y", "o" >>],
    [text |-> << "H", "i" >>, bgcolor |-> Black] }

ManualStates == { [text |-> << "Y", "o" >>] }

\* the buttons whose state is set by hand
CachePositions == { Button(0), Button(1) }

\* the sequence without its k-th element
Without(seq, k) == SubSeq(seq, 1, k - 1) \o SubSeq(seq, k + 1, Len(seq))

\* StreamDeckClient.updateButtonStyle up to its await: it returns at once
\* when nothing would change, and sends the request otherwise
updateButtonStyle(position, style) ==
  /\ lastStyleCall.n < MaxUpdates
  /\ \E sends \in { hasStyleChanges(position, style) } :
       /\ requests' = IF sends
                      THEN Append(requests, [position |-> position, data |-> style])
                      ELSE requests
       /\ lastStyleCall' = [n         |-> lastStyleCall.n + 1,
                            position  |-> position,
                            style     |-> style,
                            requested |-> sends,
                            caching   |-> cachingEnabled]
  /\ UNCHANGED << animatorVars, now, helperCall, sideVars, clientVars, lastCall, calls, events >>
  /\ UNCHANGED fluentVars

\* the request of an updateButtonStyle call succeeds: the cache is updated
\* and the style event is emitted
StyleRequestSucceeds(k) ==
  /\ buttonStateCache' = updateCachedButtonState(requests[k].position,
                                                  requests[k].data)
  /\ events' = events + 1
  /\ requests' = Without(requests, k)
  /\ UNCHANGED << animatorVars, now, helperCall, sideVars, batches, cachingEnabled, lastCall, calls,
                  lastStyleCall >>
  /\ UNCHANGED fluentVars

\* the request of an updateButtonStyle call fails after its retries: the
\* call rejects, the cache is not touched and no event is emitted
StyleRequestFails(k) ==
  /\ requests' = Without(requests, k)
  /\ UNCHANGED << animatorVars, now, helperCall, sideVars, clientVars, lastCall, calls, events,
                  lastStyleCall >>
  /\ UNCHANGED fluentVars

\* StreamDeckClient.setCachingEnabled
setCachingEnabled(enabled) ==
  /\ cachingEnabled' = enabled
  /\ buttonStateCache' = IF ~enabled THEN [none \in {} |-> << >>]
                         ELSE buttonStateCache
  /\ UNCHANGED << animatorVars, now, helperCall, sideVars, batches, lastCall, calls, apiVars >>
  /\ UNCHANGED fluentVars

\* StreamDeckClient.setButtonState
setButtonState(position, state) ==
  /\ buttonStateCache' =
       IF cachingEnabled
       THEN [k \in DOMAIN buttonStateCache \cup {getButtonKey(position)} |->
               IF k = getButtonKey(position) THEN state ELSE buttonStateCache[k]]
       ELSE buttonStateCache
  /\ UNCHANGED << animatorVars, now, helperCall, sideVars, batches, cachingEnabled, lastCall, calls,
                  apiVars >>
  /\ UNCHANGED fluentVars

\* StreamDeckClient.clearButtonCache
clearButtonCache(position) ==
  /\ buttonStateCache' = [k \in DOMAIN buttonStateCache \ {getButtonKey(position)} |->
                            buttonStateCache[k]]
  /\ UNCHANGED << animatorVars, now, helperCall, sideVars, batches, cachingEnabled, lastCall, calls,
                  apiVars >>
  /\ UNCHANGED fluentVars

\* ------------------------------------------------------------------------
\* ButtonChain.animate
\* ------------------------------------------------------------------------

\* the third argument of animate(): a boolean, a predicate (a function
\* that reads a value of the caller), or an options object
AnimateOpts ==
  { [typeof |-> "boolean", value |-> TRUE],
    [typeof |-> "boolean", value |-> FALSE],
    [typeof |-> "function"],
    [typeof |-> "object", options |-> [loop |-> TRUE]],
    [typeof |-> "object", options |-> [intervals |-> 1]] }

\* the first argument of animate()
AnimateStyles == { [bgcolor |-> White] }

AnimatePositions == { Button(0) }

\* which inline condition animate() builds from its third argument
InlineOf(opts) ==
  IF opts.typeof = "boolean" THEN "sync"
  ELSE IF opts.typeof = "function" THEN "async"
  ELSE "none"

\* the options animate() works with
OptionsOf(opts) ==
  IF opts.typeof = "object" THEN opts.options ELSE [none \in {} |-> << >>]

\* what the inline condition yields when it is evaluated now: a predicate
\* that throws counts as false
InlineOk(opts) ==
  IF opts.typeof = "boolean" THEN opts.value ELSE flag = "true"

\* finalEnabled of an animate() call on a chain without a condition
AnimateEnabled(opts) ==
  IF InlineOf(opts) = "none" THEN TRUE ELSE InlineOk(opts)

\* loopFlag
LoopFlag(opts) ==
  Opt(OptionsOf(opts), "loop",
      IF opts.typeof = "object" THEN Opt(opts.options, "loop", FALSE) ELSE FALSE)

\* Math.max(1, options.intervals ?? 2)
RunIntervals(opts) ==
  IF Opt(OptionsOf(opts), "intervals", 2) > 1
  THEN Opt(OptionsOf(opts), "intervals", 2) ELSE 1

\* ButtonChain.animate on a new chain (no style change queued, no chain
\* condition) of a client with non-blocking animations, from the call to
\* the return of the stop function (looping) or to the start of the single
\* run
animate(position, presetOrStyle, opts) ==
  /\ lastAnimate.n < MaxAnimates
  /\ lastAnimate' = [n            |-> lastAnimate.n + 1,
                     inline       |-> InlineOf(opts),
                     loopFlag     |-> LoopFlag(opts),
                     finalEnabled |-> AnimateEnabled(opts)]
  /\ IF ~AnimateEnabled(opts)
     THEN UNCHANGED << animatorVars, now, helperCall, sideVars, clientVars, lastCall, calls, apiVars,
                       flag, handles, run, chain >>
     ELSE IF LoopFlag(opts)
     THEN /\ Register("flash", position, presetOrStyle,
                      FlashDefaults(presetOrStyle,
                                    [duration   |-> 1000,
                                     loop       |-> TRUE,
                                     flashColor |-> Opt(OptionsOf(opts), "fromColor",
                                                        Opt(presetOrStyle, "bgcolor", White)),
                                     intervals  |-> Opt(OptionsOf(opts), "intervals", 2)]))
          /\ handles' = Append(handles,
                               [id          |-> AnimId(idCounter),
                                watcherStop |-> FALSE,
                                watching    |-> InlineOf(opts) # "none",
                                stopCalls   |-> 0])
          /\ UNCHANGED << flag, run, chain >>
     ELSE /\ run = Null
          /\ run' = [position |-> position,
                     target   |-> presetOrStyle,
                     revert   |-> [none \in {} |-> << >>],
                     inline   |-> InlineOf(opts),
                     left     |-> 2 * RunIntervals(opts)]
          /\ UNCHANGED << animatorVars, now, helperCall, sideVars, clientVars, lastCall, calls, apiVars,
                          flag, handles, chain >>

\* runOnce reaching its next updateButtonStyleBody call (target and revert
\* in turn): the update is fired without waiting for its response
RunStep ==
  /\ run # Null
  /\ \E style \in { IF run.left % 2 = 0 THEN run.target ELSE run.revert } :
       requests' = IF hasStyleChanges(run.position, style)
                   THEN Append(requests, [position |-> run.position, data |-> style])
                   ELSE requests
  /\ run' = IF run.left = 1 THEN Null ELSE [run EXCEPT !.left = run.left - 1]
  /\ UNCHANGED << animatorVars, now, helperCall, sideVars, clientVars, lastCall, calls, events,
                  lastStyleCall, flag, handles, lastAnimate, chain >>

\* one round of the poll loop that animate() starts next to a looping
\* animation when it was given an inline condition: the loop ends when
\* watcherStop is set, and stops the animation and ends when the condition
\* is false or throws
Poll(h) ==
  /\ handles[h].watching
  /\ IF handles[h].watcherStop
     THEN /\ handles' = [handles EXCEPT ![h].watching = FALSE]
          /\ UNCHANGED << animatorVars, now, helperCall, sideVars, clientVars, lastCall, calls, apiVars >>
     ELSE IF flag # "true"
     THEN /\ handles' = [handles EXCEPT ![h].watching = FALSE]
          /\ Delete(handles[h].id)
     ELSE UNCHANGED << animatorVars, now, helperCall, sideVars, clientVars, lastCall, calls, apiVars,
                       handles >>
  /\ UNCHANGED << flag, run, lastAnimate, chain >>

\* a stop function that sets watcherStop and leaves the animation
\* registered
callStop_KeepsEntry(h) ==
  /\ handles[h].stopCalls < MaxStopCalls
  /\ handles' = [handles EXCEPT ![h].watcherStop = TRUE,
                                ![h].stopCalls = handles[h].stopCalls + 1]
  /\ lastCall' = [returned |-> << >>, threw |-> FALSE, unknownId |-> FALSE]
  /\ UNCHANGED << animatorVars, now, helperCall, sideVars, clientVars, calls, apiVars >>
  /\ UNCHANGED << flag, run, lastAnimate, chain >>

\* the stop function returned by a looping animate()
callStop(h) ==
  /\ handles[h].stopCalls < MaxStopCalls
  /\ handles' = [handles EXCEPT ![h].watcherStop = TRUE,
                                ![h].stopCalls = handles[h].stopCalls + 1]
  /\ Delete(handles[h].id)
  /\ UNCHANGED << flag, run, lastAnimate, chain >>

\* the value the caller's predicate reads changes, or the predicate
\* starts to throw
SetFlag(v) ==
  /\ flag # v
  /\ flag' = v
  /\ UNCHANGED << animatorVars, now, helperCall, sideVars, clientVars, lastCall, calls, apiVars,
                  handles, run, lastAnimate, chain >>

\* ------------------------------------------------------------------------
\* ButtonChain: conditions and apply
\* ------------------------------------------------------------------------

\* a ButtonChain as its constructor leaves it
NewChain(n) ==
  [n              |-> n,
   phase          |-> "building",
   position       |-> Button(0),
   enabled        |-> TRUE,
   condition      |-> "none",
   asyncCondition |-> "none",
   styleChanges   |-> [none \in {} |-> << >>],
   operations     |-> 0,
   setters        |-> 0,
   last           |-> "none",
   sent           |-> 0]

\* the arguments of when() and unless(): a boolean, or a function with the
\* value it returns
ConditionArgs ==
  { [typeof |-> "boolean", value |-> TRUE],
    [typeof |-> "boolean", value |-> FALSE],
    [typeof |-> "function", value |-> TRUE],
    [typeof |-> "function", value |-> FALSE] }

\* the arguments of whenAsync() and unlessAsync(): what the predicate
\* resolves to, or that it rejects
AsyncArgs == { "true", "false", "throws" }

ChainTexts == { << "H", "i" >> }

\* a boolean as the outcome of a predicate
Outcome(b) == IF b THEN "true" ELSE "false"

\* the outcome of async () => !(await predicate())
Negated(outcome) ==
  IF outcome = "throws" THEN "throws" ELSE Outcome(outcome # "true")

\* StreamDeckClient.button
button ==
  /\ chain.phase \in { "done", "failed" }
  /\ chain.n < MaxChains
  /\ chain' = NewChain(chain.n + 1)
  /\ UNCHANGED << animatorVars, now, helperCall, sideVars, clientVars, lastCall, calls, apiVars,
                  flag, handles, run, lastAnimate >>

\* ButtonChain.text
text(t) ==
  /\ chain.phase = "building"
  /\ "text" \notin DOMAIN chain.styleChanges
  /\ chain' = [chain EXCEPT !.styleChanges = Spread(chain.styleChanges, "text", t)]
  /\ UNCHANGED << animatorVars, now, helperCall, sideVars, clientVars, lastCall, calls, apiVars,
                  flag, handles, run, lastAnimate >>

\* ButtonChain.press
press ==
  /\ chain.phase = "building"
  /\ chain.operations < MaxOps
  /\ chain' = [chain EXCEPT !.operations = chain.operations + 1]
  /\ UNCHANGED << animatorVars, now, helperCall, sideVars, clientVars, lastCall, calls, apiVars,
                  flag, handles, run, lastAnimate >>

\* ButtonChain.when
when(c) ==
  /\ chain.phase = "building"
  /\ chain.setters < MaxSetters
  /\ chain' = IF c.typeof = "function"
              THEN [chain EXCEPT !.condition = Outcome(c.value),
                                 !.setters = chain.setters + 1,
                                 !.last = Outcome(c.value)]
              ELSE [chain EXCEPT !.condition = "none",
                                 !.enabled = c.value,
                                 !.setters = chain.setters + 1,
                                 !.last = Outcome(c.value)]
  /\ UNCHANGED << animatorVars, now, helperCall, sideVars, clientVars, lastCall, calls, apiVars,
                  flag, handles, run, lastAnimate >>

\* ButtonChain.unless
unless(c) ==
  /\ chain.phase = "building"
  /\ chain.setters < MaxSetters
  /\ chain' = IF c.typeof = "function"
              THEN [chain EXCEPT !.condition = Outcome(~c.value),
                                 !.setters = chain.setters + 1,
                                 !.last = Outcome(~c.value)]
              ELSE [chain EXCEPT !.condition = "none",
                                 !.enabled = ~c.value,
                                 !.setters = chain.setters + 1,
                                 !.last = Outcome(~c.value)]
  /\ UNCHANGED << animatorVars, now, helperCall, sideVars, clientVars, lastCall, calls, apiVars,
                  flag, handles, run, lastAnimate >>

\* ButtonChain.whenAsync
whenAsync(predicate) ==
  /\ chain.phase = "building"
  /\ chain.setters < MaxSetters
  /\ chain' = [chain EXCEPT !.asyncCondition = predicate,
                            !.condition = "none",
                            !.setters = chain.setters + 1,
                            !.last = predicate]
  /\ UNCHANGED << animatorVars, now, helperCall, sideVars, clientVars, lastCall, calls, apiVars,
                  flag, handles, run, lastAnimate >>

\* ButtonChain.unlessAsync
unlessAsync(predicate) ==
  /\ chain.phase = "building"
  /\ chain.setters < MaxSetters
  /\ chain' = [chain EXCEPT !.asyncCondition = Negated(predicate),
                            !.condition = "none",
                            !.setters = chain.setters + 1,
                            !.last = Negated(predicate)]
  /\ UNCHANGED << animatorVars, now, helperCall, sideVars, clientVars, lastCall, calls, apiVars,
                  flag, handles, run, lastAnimate >>

\* apply() reaching its loop over the queued operations: the next one is
\* called and its request goes out, or apply() has finished
RunOperations(c, reqs) ==
  IF c.operations > 0
  THEN [chain    |-> [c EXCEPT !.phase = "action", !.sent = c.sent + 1],
        requests |-> Append(reqs, [position |-> c.position, action |-> "press",
                                   chain |-> TRUE])]
  ELSE [chain |-> [c EXCEPT !.phase = "done"], requests |-> reqs]

\* apply() from the test of finalEnabled on: it returns when the chain is
\* not enabled; otherwise the collected style changes go to
\* updateButtonStyleBody, which sends them unless nothing would change,
\* and the queued operations follow
ApplyBody(finalEnabled) ==
  IF ~finalEnabled
  THEN [chain |-> [chain EXCEPT !.phase = "done"], requests |-> requests]
  ELSE IF DOMAIN chain.styleChanges # {}
          /\ hasStyleChanges(chain.position, chain.styleChanges)
  THEN [chain    |-> [chain EXCEPT !.phase = "style", !.sent = chain.sent + 1],
        requests |-> Append(requests, [position |-> chain.position,
                                       data |-> chain.styleChanges,
                                       chain |-> TRUE])]
  ELSE RunOperations(chain, requests)

\* ButtonChain.apply: with an asyncCondition it waits for the predicate;
\* without one the condition (when set) or the enabled flag decides
apply ==
  /\ chain.phase = "building"
  /\ IF chain.asyncCondition # "none"
     THEN /\ chain' = [chain EXCEPT !.phase = "condition"]
          /\ UNCHANGED requests
     ELSE \E after \in { ApplyBody(IF chain.condition # "none"
                                    THEN chain.condition = "true"
                                    ELSE chain.enabled) } :
            /\ chain' = after.chain
            /\ requests' = after.requests
  /\ UNCHANGED << animatorVars, now, helperCall, sideVars, clientVars, lastCall, calls, events,
                  lastStyleCall, flag, handles, run, lastAnimate >>

\* the asyncCondition awaited by apply() settles: a rejection disables the
\* chain
ConditionSettles ==
  /\ chain.phase = "condition"
  /\ \E after \in { ApplyBody(chain.asyncCondition = "true") } :
       /\ chain' = after.chain
       /\ requests' = after.requests
  /\ UNCHANGED << animatorVars, now, helperCall, sideVars, clientVars, lastCall, calls, events,
                  lastStyleCall, flag, handles, run, lastAnimate >>

\* the request apply() waits for succeeds: a style request updates the
\* cache, either emits its event; after the style request the operations
\* start, after an operation its 10 ms pause
ChainRequestSucceeds(k) ==
  /\ "chain" \in DOMAIN requests[k]
  /\ events' = events + 1
  /\ IF chain.phase = "style"
     THEN /\ buttonStateCache' = updateCachedButtonState(requests[k].position,
                                                          requests[k].data)
          /\ \E after \in { RunOperations(chain, Without(requests, k)) } :
               /\ chain' = after.chain
               /\ requests' = after.requests
     ELSE /\ chain' = [chain EXCEPT !.phase = "pause"]
          /\ requests' = Without(requests, k)
          /\ UNCHANGED buttonStateCache
  /\ UNCHANGED << animatorVars, now, helperCall, sideVars, batches, cachingEnabled, lastCall, calls,
                  lastStyleCall, flag, handles, run, lastAnimate >>

\* the request apply() waits for fails after its retries: apply() rejects
\* and what is left of the chain is not executed
ChainRequestFails(k) ==
  /\ "chain" \in DOMAIN requests[k]
  /\ requests' = Without(requests, k)
  /\ chain' = [chain EXCEPT !.phase = "failed"]
  /\ UNCHANGED << animatorVars, now, helperCall, sideVars, clientVars, lastCall, calls, events,
                  lastStyleCall, flag, handles, run, lastAnimate >>

\* the 10 ms pause after an operation of apply() ends
ChainPauseEnds ==
  /\ chain.phase = "pause"
  /\ \E after \in { RunOperations([chain EXCEPT !.operations = chain.operations - 1],
                                   requests) } :
       /\ chain' = after.chain
       /\ requests' = after.requests
  /\ UNCHANGED << animatorVars, now, helperCall, sideVars, clientVars, lastCall, calls, events,
                  lastStyleCall, flag, handles, run, lastAnimate >>

\* ------------------------------------------------------------------------
\* Static helpers called on their own
\* ------------------------------------------------------------------------

\* the strings given to hexToRgb: six characters of which some are no hex
\* digit, five and seven hex digits, each with and without '#'
HexBodies ==
  [1..6 -> { "0", "9", "a", "F", "g" }]
    \cup [1..5 -> { "0", "F" }] \cup [1..7 -> { "0", "F" }]

HexStrings == HexBodies \cup { << "#" >> \o body : body \in HexBodies }

\* the numbers given to rgbToHex as a channel
Channels ==
  { Int2Num(0), Int2Num(255), Int2Num(-1), Int2Num(256), Int2Num(10),
    << 1, 2, 0 >>, << 509, 2, 0 >>, << 511, 2, 0 >>,
    Infinity, << -1, 0, 0 >>, NaN }

\* hexToRgb(hex), and rgbToHex of its channels when it is not null
callHexToRgb(hex) ==
  /\ helperCall.fn = "none"
  /\ helperCall' = [fn   |-> "hexToRgb",
                    hex  |-> hex,
                    rgb  |-> hexToRgb(hex),
                    back |-> IF hexToRgb(hex) = Null THEN Null
                             ELSE rgbToHex(Int2Num(hexToRgb(hex)[1]),
                                           Int2Num(hexToRgb(hex)[2]),
                                           Int2Num(hexToRgb(hex)[3]))]
  /\ UNCHANGED << animatorVars, now, clientVars, lastCall, calls, sideVars >>
  /\ UNCHANGED apiVars
  /\ UNCHANGED fluentVars

\* rgbToHex(r, g, b)
callRgbToHex(r, g, b) ==
  /\ helperCall.fn = "none"
  /\ helperCall' = [fn |-> "rgbToHex", r |-> r, g |-> g, b |-> b,
                    hex |-> rgbToHex(r, g, b)]
  /\ UNCHANGED << animatorVars, now, clientVars, lastCall, calls, sideVars >>
  /\ UNCHANGED apiVars
  /\ UNCHANGED fluentVars

\* the colors and the factors given to mixColors
MixColors ==
  { Black, White, LowerWhite, << "#", "0", "a", "9", "F", "1", "0" >>,
    << "7", "f", "8", "0", "8", "1" >> }

MixFactors == { Int2Num(0), Int2Num(1), << 1, 2, 0 >>, << 1, 4, 0 >> }

\* mixColors(hexA, hexB, t)
callMixColors(hexA, hexB, t) ==
  /\ helperCall.fn = "none"
  /\ helperCall' = [fn |-> "mixColors", hexA |-> hexA, hexB |-> hexB, t |-> t,
                    hex |-> mixColors(hexA, hexB, t)]
  /\ UNCHANGED << animatorVars, now, clientVars, lastCall, calls, sideVars >>
  /\ UNCHANGED apiVars
  /\ UNCHANGED fluentVars

\* the frame rates given to the constructor
RequestedRates == -3..70

\* new Animator(client, requested)
construct(requested) ==
  /\ helperCall.fn = "none"
  /\ helperCall' = [fn           |-> "Animator",
                    requested    |-> requested,
                    fps          |-> ConstructFps(requested),
                    tickInterval |-> ConstructTickInterval(ConstructFps(requested))]
  /\ UNCHANGED << animatorVars, now, clientVars, lastCall, calls, sideVars >>
  /\ UNCHANGED apiVars
  /\ UNCHANGED fluentVars

\* ------------------------------------------------------------------------
\* The builders called with options that shape the frames
\* ------------------------------------------------------------------------

\* a color string that is no 6-digit hex value
NotAColor == << "r", "e", "d" >>

\* what a caller writes into the text of a style object after it has
\* passed the object to a builder
ChangedText == << "B", "y", "e" >>

\* the styles passed to the builders: one with a hex background and one
\* whose background is no hex value
FrameStyles ==
  Styles \cup
  { [text |-> << "H", "i" >>, bgcolor |-> NotAColor, color |-> White, size |-> 18] }

\* a flash towards a color that is no hex value, and one full swing
FrameFlashOptions ==
  { [flashColor |-> NotAColor],
    [intervals |-> 1] }

\* a looping fade that wraps at every tick, a looping fade of duration 0,
\* and a single pass from a color that is no hex value
FrameFadeOptions ==
  { [duration |-> 500, toColor |-> White, loop |-> TRUE],
    [duration |-> 0, toColor |-> White, loop |-> TRUE],
    [fromColor |-> NotAColor, toColor |-> LowerWhite] }

\* a single pass through the hues that no tick meets at its end
FrameRainbowOptions == { [duration |-> 800, loop |-> FALSE] }

\* flashes of 2 and 4 seconds: without intervals, and with intervals
\* below 1
BuilderFlashOptions ==
  { [duration |-> 4000],
    [duration |-> 2000, intervals |-> 0],
    [duration |-> 2000, intervals |-> -1] }

\* the options given to pulse()
PulseOptions ==
  { [duration |-> 4000],
    [none \in {} |-> 0] }

\* pulse(animator, position, originalStyle, opts)
pulse(position, originalStyle, opts) ==
  createFlash(position, originalStyle,
              [duration   |-> Opt(opts, "duration", 1000),
               loop       |-> Opt(opts, "loop", TRUE),
               flashColor |-> Opt(opts, "flashColor", White),
               intervals  |-> Opt(opts, "intervals", 2)])

\* the caller assigns to the text of the style object it passed to the
\* builder of the i-th entry; the entry holds that same object
CallerChangesStyle(i) ==
  /\ animations[i].originalStyle.text # ChangedText
  /\ animations' = [animations EXCEPT ![i].originalStyle.text = ChangedText]
  /\ UNCHANGED << timer, intervals, due, idCounter, now, helperCall, sideVars, clientVars,
                  lastCall, calls >>
  /\ UNCHANGED apiVars
  /\ UNCHANGED fluentVars

\* the options of animations that run for one timer interval or none, and
\* of one that loops
LiveOptions ==
  { [duration |-> 500],
    [duration |-> 0, loop |-> FALSE],
    [duration |-> 500, loop |-> TRUE] }

\* the clock moves on by one timer interval once the expiry that was
\* waiting has run its tick
AdvanceAfterTick == ~due /\ Advance

\* ------------------------------------------------------------------------
\* makeRequest: fetch with retries
\* ------------------------------------------------------------------------

\* the retries a client is configured with
RetryCounts == 0..MaxRetries

\* how a fetch attempt goes wrong: a response that is not ok, a network
\* error, or the abort of the timeout
FetchErrors == { "HTTP_ERROR", "TypeError", "AbortError" }

\* what an ok response is read as
Bodies == { "json", "text" }

\* no makeRequest call has been made
IdleRequest == [n |-> 0, phase |-> "idle"]

\* the for statement of makeRequest reaching its test with the value
\* `attempt`: the body runs to the fetch call, or the loop is left and
\* REQUEST_FAILED is thrown
LoopTest(req, attempt) ==
  IF attempt <= req.retries
  THEN [req EXCEPT !.attempt = attempt, !.phase = "fetch", !.fetches = @ + 1]
  ELSE [req EXCEPT !.attempt = attempt, !.phase = "rejected",
                   !.code = "REQUEST_FAILED"]

\* makeRequest called on a client configured with `retries`
makeRequest(retries) ==
  /\ http.phase \in { "idle", "returned", "rejected" }
  /\ http.n < MaxRequests
  /\ http' = LoopTest([n |-> http.n + 1, retries |-> retries, attempt |-> 1,
                       phase |-> "start", fetches |-> 0, waits |-> 0,
                       delay |-> 0, lastError |-> "null", code |-> "none",
                       result |-> "none"], 1)
  /\ UNCHANGED << coreVars, getterVars, remoteVars >>

\* the fetch of the current attempt gives an ok response: makeRequest
\* returns what it reads from it
FetchSucceeds(body) ==
  /\ http.phase = "fetch"
  /\ http' = [http EXCEPT !.phase = "returned", !.result = body]
  /\ UNCHANGED << coreVars, getterVars, remoteVars >>

\* a catch block that backs off after every failed attempt, the last one
\* included
FetchFails_AlwaysWaits(error) ==
  /\ http.phase = "fetch"
  /\ http' = [http EXCEPT !.lastError = error, !.phase = "wait",
                          !.waits = @ + 1, !.delay = (2 ^ http.attempt) * 100]
  /\ UNCHANGED << coreVars, getterVars, remoteVars >>

\* the current attempt fails (the response is not ok, fetch rejects, or
\* the timeout aborts it): after the last attempt the loop is left, after
\* any other the backoff begins
FetchFails(error) ==
  /\ http.phase = "fetch"
  /\ http' = IF http.attempt = http.retries
             THEN [http EXCEPT !.lastError = error, !.phase = "rejected",
                               !.code = "REQUEST_FAILED"]
             ELSE [http EXCEPT !.lastError = error, !.phase = "wait",
                               !.waits = @ + 1,
                               !.delay = (2 ^ http.attempt) * 100]
  /\ UNCHANGED << coreVars, getterVars, remoteVars >>

\* the backoff ends: attempt++ and the test of the loop
BackoffEnds ==
  /\ http.phase = "wait"
  /\ http' = LoopTest(http, http.attempt + 1)
  /\ UNCHANGED << coreVars, getterVars, remoteVars >>

\* ------------------------------------------------------------------------
\* StreamDeckClient.getAnimator
\* ------------------------------------------------------------------------

\* getAnimator up to its await: the instance in _animator is returned when
\* there is one; otherwise the call waits for import('./animator')
getAnimator ==
  /\ Len(getCalls) < MaxGetCalls
  /\ getCalls' = Append(getCalls,
                        IF animatorField # 0
                        THEN [phase |-> "returned", instance |-> animatorField]
                        ELSE [phase |-> "import", instance |-> 0])
  /\ UNCHANGED << coreVars, http, remoteVars, animatorField, engines >>

\* the import of the k-th call resolves: the call constructs an Animator,
\* stores it in _animator and returns it
ImportResolves(k) ==
  /\ getCalls[k].phase = "import"
  /\ engines' = Append(engines, 0)
  /\ animatorField' = Len(engines) + 1
  /\ getCalls' = [getCalls EXCEPT ![k] = [phase |-> "returned",
                                           instance |-> Len(engines) + 1]]
  /\ UNCHANGED << coreVars, http, remoteVars >>

\* the caller of the k-th call registers an animation with the instance
\* it was given
RegisterWith(k) ==
  /\ getCalls[k].phase = "returned"
  /\ engines[getCalls[k].instance] < MaxAnims
  /\ engines' = [engines EXCEPT ![getCalls[k].instance] = @ + 1]
  /\ UNCHANGED << coreVars, http, remoteVars, animatorField, getCalls >>

\* ------------------------------------------------------------------------
\* RemoteClient over TCP
\* ------------------------------------------------------------------------

\* the rest of the model, which RemoteClient does not touch
otherVars == << coreVars, http, getterVars >>

\* connectTcp: a new socket that is connecting; the connect() that made it
\* has its timeout pending and is awaited by the given reconnect sequence
connectTcp(owner) ==
  [state |-> "connecting", owner |-> owner, timeout |-> TRUE]

\* socket.destroy() on the socket the client holds: a socket that is
\* connecting or open is destroyed and will emit 'close'
Destroy(s) ==
  IF s # 0 /\ sockets[s].state \in {"connecting", "open"}
  THEN [sockets EXCEPT ![s].state = "destroyed"]
  ELSE sockets

\* the .then of tryReconnect: 'reconnected' is emitted
Reconnected(q) ==
  IF q = 0 THEN sequences
  ELSE [sequences EXCEPT ![q].phase = "reconnected", ![q].reconnected = @ + 1]

\* the .catch of tryReconnect: the next timer of the sequence is set
Retry(q) ==
  IF q = 0 THEN sequences ELSE [sequences EXCEPT ![q].phase = "timer"]

\* connect() called by the user
connect ==
  /\ userDisconnected' = FALSE
  /\ IF connected
     THEN UNCHANGED << sockets, socket >>
     ELSE /\ Len(sockets) < MaxSockets
          /\ sockets' = Append(sockets, connectTcp(0))
          /\ socket' = Len(sockets) + 1
  /\ UNCHANGED << otherVars, connected, reconnectTimer, sequences,
                  messageQueue, flushTimers, written, issued >>

\* the connect callback of socket s: connected is set, the queue is
\* flushed to timers (flushMessageQueue) and the connect() is resolved
SocketConnects(s) ==
  /\ sockets[s].state = "connecting"
  /\ sockets' = [sockets EXCEPT ![s].state = "open", ![s].timeout = FALSE]
  /\ connected' = TRUE
  /\ flushTimers' = flushTimers \o messageQueue
  /\ messageQueue' = << >>
  /\ sequences' = Reconnected(sockets[s].owner)
  /\ reconnectTimer' = IF sockets[s].owner # 0 THEN 0 ELSE reconnectTimer
  /\ UNCHANGED << otherVars, socket, written, issued, userDisconnected >>

\* the 'error' handler of socket s: the timeout is cleared, connected is
\* reset and the connect() is rejected when it is still pending; the
\* socket emits 'close' afterwards
SocketErrors(s) ==
  /\ sockets[s].state \in {"connecting", "open"}
  /\ sockets' = [sockets EXCEPT ![s].state = "errored", ![s].timeout = FALSE]
  /\ connected' = FALSE
  /\ sequences' = IF sockets[s].timeout THEN Retry(sockets[s].owner) ELSE sequences
  /\ reconnectTimer' = IF sockets[s].timeout /\ sockets[s].owner # 0
                       THEN sockets[s].owner ELSE reconnectTimer
  /\ UNCHANGED << otherVars, socket, messageQueue, flushTimers, written,
                  issued, userDisconnected >>

\* the 'close' handler of socket s, which the peer closed, which failed or
\* which was destroyed: connected is reset and attemptReconnect is called,
\* which starts a sequence with its first timer unless reconnectTimer is set
SocketCloses(s) ==
  /\ sockets[s].state \in {"open", "errored", "destroyed"}
  /\ sockets' = [sockets EXCEPT ![s].state = "closed"]
  /\ connected' = FALSE
  /\ IF reconnectTimer # 0
     THEN UNCHANGED << sequences, reconnectTimer >>
     ELSE /\ Len(sequences) < MaxSequences
          /\ sequences' = Append(sequences, [attempts |-> 0, tried |-> 0,
                                            phase |-> "timer", failed |-> 0,
                                            reconnected |-> 0])
          /\ reconnectTimer' = Len(sequences) + 1
  /\ UNCHANGED << otherVars, socket, messageQueue, flushTimers, written,
                  issued, userDisconnected >>

\* the timeout of the connect() that made socket s: cleanup() destroys
\* the socket the client holds now, and the connect() is rejected
ConnectTimesOut(s) ==
  /\ sockets[s].timeout
  /\ sockets[s].state \in {"connecting", "destroyed", "closed"}
  /\ sockets' = [Destroy(socket) EXCEPT ![s].timeout = FALSE]
  /\ socket' = 0
  /\ connected' = FALSE
  /\ sequences' = Retry(sockets[s].owner)
  /\ reconnectTimer' = IF sockets[s].owner # 0 THEN sockets[s].owner
                       ELSE reconnectTimer
  /\ UNCHANGED << otherVars, messageQueue, flushTimers, written, issued,
                  userDisconnected >>

\* disconnect() called by the user: the reconnect timer is cleared, the
\* socket destroyed and forgotten, connected reset
disconnect ==
  /\ connected \/ socket # 0 \/ reconnectTimer # 0
  /\ userDisconnected' = TRUE
  /\ sequences' = IF reconnectTimer # 0 /\ sequences[reconnectTimer].phase = "timer"
                  THEN [sequences EXCEPT ![reconnectTimer].phase = "cleared"]
                  ELSE sequences
  /\ reconnectTimer' = 0
  /\ sockets' = Destroy(socket)
  /\ socket' = 0
  /\ connected' = FALSE
  /\ UNCHANGED << otherVars, messageQueue, flushTimers, written, issued >>

\* tryReconnect of sequence q, when its timer fires: 'reconnect-failed'
\* once the attempts are used up, else connect() and its then/catch
tryReconnect(q) ==
  /\ sequences[q].phase = "timer"
  /\ IF sequences[q].attempts + 1 > ReconnectAttempts
     THEN /\ sequences' = [sequences EXCEPT ![q].attempts = @ + 1,
                                            ![q].phase = "failed",
                                            ![q].failed = @ + 1]
          /\ UNCHANGED << sockets, socket, reconnectTimer >>
     ELSE IF connected
     THEN /\ sequences' = [sequences EXCEPT ![q].attempts = @ + 1,
                                            ![q].tried = @ + 1,
                                            ![q].phase = "reconnected",
                                            ![q].reconnected = @ + 1]
          /\ reconnectTimer' = 0
          /\ UNCHANGED << sockets, socket >>
     ELSE /\ Len(sockets) < MaxSockets
          /\ sequences' = [sequences EXCEPT ![q].attempts = @ + 1,
                                            ![q].tried = @ + 1,
                                            ![q].phase = "connecting"]
          /\ sockets' = Append(sockets, connectTcp(q))
          /\ socket' = Len(sockets) + 1
          /\ UNCHANGED reconnectTimer
  /\ UNCHANGED << otherVars, connected, messageQueue, flushTimers, written,
                  issued, userDisconnected >>

\* the body of sendCommand: while disconnected the command is queued and
\* connect() is called (reconnectAttempts is never 0: the constructor
\* replaces 0 by 3); while connected it is written to the socket
Send(command) ==
  IF ~connected
  THEN /\ Len(sockets) < MaxSockets
       /\ messageQueue' = Append(messageQueue, command)
       /\ sockets' = Append(sockets, connectTcp(0))
       /\ socket' = Len(sockets) + 1
       /\ UNCHANGED written
  ELSE /\ written' = IF socket # 0 THEN Append(written, command) ELSE written
       /\ UNCHANGED << messageQueue, sockets, socket >>

\* sendCommand called by the user with the next command
sendCommand ==
  /\ issued < MaxCommands
  /\ issued' = issued + 1
  /\ userDisconnected' = FALSE
  /\ Send(issued + 1)
  /\ UNCHANGED << otherVars, connected, reconnectTimer, sequences, flushTimers >>

\* the timer flushMessageQueue set for the oldest flushed command fires:
\* sendCommand is called with it
FlushTimerFires ==
  /\ flushTimers # << >>
  /\ flushTimers' = Tail(flushTimers)
  /\ Send(Head(flushTimers))
  /\ UNCHANGED << otherVars, connected, reconnectTimer, sequences, issued,
                  userDisconnected >>

\* ------------------------------------------------------------------------
\* Specification
\* ------------------------------------------------------------------------

Init ==
  /\ timer = FALSE
  /\ intervals = 0
  /\ due = FALSE
  /\ animations = << >>
  /\ idCounter = 1
  /\ now = 0
  /\ batches = << >>
  /\ buttonStateCache = [none \in {} |-> << >>]
  /\ cachingEnabled = TRUE
  /\ lastCall = [returned |-> << >>, threw |-> FALSE, unknownId |-> FALSE]
  /\ calls = << >>
  /\ requests = << >>
  /\ events = 0
  /\ lastStyleCall = [n |-> 0, requested |-> FALSE, caching |-> TRUE]
  /\ flag = "true"
  /\ handles = << >>
  /\ run = Null
  /\ lastAnimate = [n |-> 0, inline |-> "none", loopFlag |-> FALSE,
                    finalEnabled |-> FALSE]
  /\ chain = NewChain(1)
  /\ helperCall = [fn |-> "none"]
  /\ http = IdleRequest
  /\ animatorField = 0
  /\ getCalls = << >>
  /\ engines = << >>
  /\ connected = FALSE
  /\ socket = 0
  /\ sockets = << >>
  /\ reconnectTimer = 0
  /\ sequences = << >>
  /\ messageQueue = << >>
  /\ flushTimers = << >>
  /\ written = << >>
  /\ issued = 0
  /\ userDisconnected = FALSE

Next ==
  \/ \E p \in FlashPositions, s \in Styles, o \in FlashOptions : createFlash(p, s, o)
  \/ \E p \in FadePositions, s \in Styles, o \in FadeOptions : createFade(p, s, o)
  \/ \E p \in RainbowPositions, s \in Styles, o \in RainbowOptions : createRainbow(p, s, o)
  \/ \E n \in 1..MaxAnims : stopAnimation(AnimId(n))
  \/ stopAll
  \/ tick
  \/ \E i \in 1..Len(batches) : RequestSucceeds(i)
  \/ \E i \in 1..Len(batches) : RequestFails(i)
  \/ \E i \in 1..Len(batches) : PauseEnds(i)
  \/ Advance

Spec == Init /\ [][Next]_vars

\* The Animator alone: no response of the transport arrives during the run.
\* No action of the transport writes a variable of the Animator.
NextAnimator ==
  \/ \E p \in FlashPositions, s \in Styles, o \in FlashOptions : createFlash(p, s, o)
  \/ \E p \in FadePositions, s \in Styles, o \in FadeOptions : createFade(p, s, o)
  \/ \E p \in RainbowPositions, s \in Styles, o \in RainbowOptions : createRainbow(p, s, o)
  \/ \E n \in 1..MaxAnims : stopAnimation(AnimId(n))
  \/ stopAll
  \/ tick
  \/ Advance

SpecAnimator == Init /\ [][NextAnimator]_vars

\* the Animator and the transport when no single animation is canceled:
\* animations end by retiring or by stopAll
NextTransport ==
  \/ \E p \in FlashPositions, s \in Styles, o \in FlashOptions : createFlash(p, s, o)
  \/ \E p \in FadePositions, s \in Styles, o \in FadeOptions : createFade(p, s, o)
  \/ \E p \in RainbowPositions, s \in Styles, o \in RainbowOptions : createRainbow(p, s, o)
  \/ stopAll
  \/ tick
  \/ \E i \in 1..Len(batches) : RequestSucceeds(i)
  \/ \E i \in 1..Len(batches) : RequestFails(i)
  \/ \E i \in 1..Len(batches) : PauseEnds(i)
  \/ Advance

SpecTransport == Init /\ [][NextTransport]_vars

\* the client used for style updates and cache controls alone
NextCache ==
  \/ \E p \in UpdatePositions, s \in UpdateStyles : updateButtonStyle(p, s)
  \/ \E k \in 1..Len(requests) : StyleRequestSucceeds(k)
  \/ \E k \in 1..Len(requests) : StyleRequestFails(k)
  \/ \E e \in BOOLEAN : setCachingEnabled(e)
  \/ \E p \in UpdatePositions, s \in ManualStates : setButtonState(p, s)
  \/ \E p \in UpdatePositions : clearButtonCache(p)

SpecCache == Init /\ [][NextCache]_vars

\* style updates for one button while the cache also holds a state for
\* another
NextPartial ==
  \/ \E p \in UpdatePositions, s \in UpdateStyles : updateButtonStyle(p, s)
  \/ \E k \in 1..Len(requests) : StyleRequestSucceeds(k)
  \/ \E k \in 1..Len(requests) : StyleRequestFails(k)
  \/ \E p \in CachePositions, s \in ManualStates : setButtonState(p, s)

SpecPartial == Init /\ [][NextPartial]_vars

\* style updates made without waiting for the responses to the earlier
\* ones, every request succeeding; the responses come in any order
NextInFlight ==
  \/ \E p \in UpdatePositions, s \in UpdateStyles : updateButtonStyle(p, s)
  \/ \E k \in 1..Len(requests) : StyleRequestSucceeds(k)

SpecInFlight == Init /\ [][NextInFlight]_vars

\* the fluent animate() with the caller's predicate and the responses to
\* the updates of its single runs, while the Animator's timer does not fire
NextAnimate ==
  \/ \E p \in AnimatePositions, s \in AnimateStyles, o \in AnimateOpts : animate(p, s, o)
  \/ RunStep
  \/ \E h \in 1..Len(handles) : callStop(h)
  \/ \E v \in { "true", "false", "throws" } : SetFlag(v)
  \/ \E k \in 1..Len(requests) : StyleRequestSucceeds(k)
  \/ \E k \in 1..Len(requests) : StyleRequestFails(k)

SpecAnimate == Init /\ [][NextAnimate]_vars

\* the fluent animate() and its stop functions next to a direct user of the
\* Animator, while no response of the transport arrives and the caller's
\* predicate keeps its value
NextStop ==
  \/ \E p \in AnimatePositions, s \in AnimateStyles, o \in AnimateOpts : animate(p, s, o)
  \/ RunStep
  \/ \E h \in 1..Len(handles) : callStop(h)
  \/ \E p \in FlashPositions, s \in Styles, o \in FlashOptions : createFlash(p, s, o)
  \/ tick
  \/ Advance

SpecStop == Init /\ [][NextStop]_vars

\* chains built and applied one after another
NextChain ==
  \/ button
  \/ \E t \in ChainTexts : text(t)
  \/ press
  \/ \E c \in ConditionArgs : when(c)
  \/ \E c \in ConditionArgs : unless(c)
  \/ \E q \in AsyncArgs : whenAsync(q)
  \/ \E q \in AsyncArgs : unlessAsync(q)
  \/ apply
  \/ ConditionSettles
  \/ \E k \in 1..Len(requests) : ChainRequestSucceeds(k)
  \/ \E k \in 1..Len(requests) : ChainRequestFails(k)
  \/ ChainPauseEnds

SpecChain == Init /\ [][NextChain]_vars

\* one call of a static helper, with any of the inputs
NextHelpers ==
  \/ \E hex \in HexStrings : callHexToRgb(hex)
  \/ \E r \in Channels, g \in Channels, b \in Channels : callRgbToHex(r, g, b)
  \/ \E a \in MixColors, b \in MixColors, t \in MixFactors : callMixColors(a, b, t)
  \/ \E f \in RequestedRates : construct(f)

SpecHelpers == Init /\ [][NextHelpers]_vars

\* callers that ask the client for its Animator, at any time, and
\* register animations with what they get
NextGetter ==
  \/ getAnimator
  \/ \E k \in 1..Len(getCalls) : ImportResolves(k)
  \/ \E k \in 1..Len(getCalls) : RegisterWith(k)

SpecGetter == Init /\ [][NextGetter]_vars

\* a TCP RemoteClient whose user connects, disconnects and sends commands
\* while sockets connect, fail, close and time out
NextRemote ==
  \/ connect
  \/ disconnect
  \/ sendCommand
  \/ FlushTimerFires
  \/ \E s \in 1..Len(sockets) : SocketConnects(s)
  \/ \E s \in 1..Len(sockets) : SocketErrors(s)
  \/ \E s \in 1..Len(sockets) : SocketCloses(s)
  \/ \E s \in 1..Len(sockets) : ConnectTimesOut(s)
  \/ \E q \in 1..Len(sequences) : tryReconnect(q)

SpecRemote == Init /\ [][NextRemote]_vars

\* calls of makeRequest, one after the other, with every course the fetch
\* attempts can take
NextRequest ==
  \/ \E r \in RetryCounts : makeRequest(r)
  \/ \E b \in Bodies : FetchSucceeds(b)
  \/ \E e \in FetchErrors : FetchFails(e)
  \/ BackoffEnds

SpecRequest == Init /\ [][NextRequest]_vars

\* the Animator with animations whose colors wrap, run past their end or
\* are no hex values
NextFrames ==
  \/ \E p \in FlashPositions, s \in FrameStyles, o \in FrameFlashOptions :
       createFlash(p, s, o)
  \/ \E p \in FadePositions, s \in Styles, o \in FrameFadeOptions :
       createFade(p, s, o)
  \/ \E p \in RainbowPositions, s \in Styles, o \in FrameRainbowOptions :
       createRainbow(p, s, o)
  \/ tick
  \/ Advance

SpecFrames == Init /\ [][NextFrames]_vars

\* flashes made by createFlash and by pulse()
NextBuilders ==
  \/ \E p \in FlashPositions, s \in Styles, o \in BuilderFlashOptions :
       createFlash(p, s, o)
  \/ \E p \in FlashPositions, s \in Styles, o \in PulseOptions : pulse(p, s, o)
  \/ tick
  \/ Advance

SpecBuilders == Init /\ [][NextBuilders]_vars

\* a caller that goes on writing to the style objects it has passed to the
\* builders
NextAlias ==
  \/ \E p \in FlashPositions, s \in Styles, o \in FlashOptions : createFlash(p, s, o)
  \/ \E p \in FadePositions, s \in Styles, o \in FadeOptions : createFade(p, s, o)
  \/ \E i \in 1..Len(animations) : CallerChangesStyle(i)
  \/ tick
  \/ Advance

SpecAlias == Init /\ [][NextAlias]_vars

\* the user makes all calls before the clock moves; from then on the
\* timer alone drives the Animator
NextLive ==
  \/ \E p \in FlashPositions, s \in Styles, o \in LiveOptions :
       now = 0 /\ createFlash(p, s, o)
  \/ \E p \in FadePositions, s \in Styles, o \in LiveOptions :
       now = 0 /\ createFade(p, s, o)
  \/ \E p \in RainbowPositions, s \in Styles, o \in LiveOptions :
       now = 0 /\ createRainbow(p, s, o)
  \/ tick
  \/ AdvanceAfterTick

\* the step in which the expiry that is waiting runs tick(): no other
\* action takes `due` from TRUE to FALSE while the timer is set
TimerFires == timer /\ due /\ due' = FALSE

\* setInterval keeps calling tick for as long as the timer is set, and
\* time passes
SpecLive ==
  Init /\ [][NextLive]_vars /\ WF_due(TimerFires) /\ WF_vars(AdvanceAfterTick)

\* ------------------------------------------------------------------------
\* Properties
\* ------------------------------------------------------------------------

\* the frames a sequence of executeBatch calls carries for animation id
FramesFor(callSeq, id) ==
  { << c, k >> \in { << c, k >> \in (1..Len(callSeq)) \X (1..MaxAnims + 1) :
                       k <= Len(callSeq[c]) } : callSeq[c][k].anim = id }

\* the frames of animation id that executeBatch invocations in flight have
\* not yet handed to updateButtonStyleBody (the first operation of each is
\* the current one); equal frames count once
FramesWaiting(id) ==
  { batches[b].ops[k].data :
      << b, k >> \in { << b, k >> \in (1..Len(batches)) \X (2..MaxAnims + 1) :
                         k <= Len(batches[b].ops) /\ batches[b].ops[k].anim = id } }

Gray80 == << "#", "8", "0", "8", "0", "8", "0" >>

Gray7F == << "#", "7", "F", "7", "F", "7", "F" >>

\* C1 as claimed: in every reachable state the timer is running if and
\* only if the registry is non-empty.
C1_TimerIffNonEmpty == timer <=> Len(animations) > 0

\* C1 as amended: the timer is running whenever the registry is non-empty;
\* timer running with an empty registry arises only from a tick that retires
\* the last animation, and the next tick then stops the timer and calls
\* nothing.
C1_TimerLifecycle ==
  /\ [](Len(animations) > 0 => timer)
  /\ [][ /\ (timer' /\ Len(animations') = 0) =>
              \/ (tick /\ Len(animations) > 0)
              \/ (timer /\ Len(animations) = 0)
         /\ (tick /\ Len(animations) = 0) => (~timer' /\ calls' = << >>) ]_vars

\* C1: a tick has retired the last animation and the timer is still set
C1_TimerOutlivesRegistry ==
  timer /\ Len(animations) = 0 /\ Len(calls) = 1

\* C2: from a state with an empty registry no step calls executeBatch: a
\* tick leaves the in-flight invocations as they are and records no call,
\* and no other step records one.
C2_NoBatchOnceEmpty ==
  [][ Len(animations) = 0 =>
        /\ tick => (calls' = << >> /\ batches' = batches)
        /\ ~tick => calls' = calls ]_vars

\* C2: the registry has emptied after animations ran, and the timer fires
C2_TickOnEmptyRegistry ==
  Len(animations) = 0 /\ idCounter > 1 /\ timer /\ due /\ Len(calls) = 1

\* C3 as claimed: no tick computes a frame for an animation that is not
\* registered, and when stopAnimation(id) returns for a registered id at
\* most one frame of that animation is still to be delivered.
C3_AtMostOneFrameAfterCancel ==
  [][ /\ tick => \A c \in 1..Len(calls') : \A k \in 1..Len(calls'[c]) :
                    calls'[c][k].anim \in Ids(animations)
      /\ \A n \in 1..MaxAnims :
           (AnimId(n) \in Ids(animations) /\ stopAnimation(AnimId(n)))
             => Cardinality(FramesWaiting(AnimId(n))') <= 1 ]_vars

\* C4 as claimed: a builder called with a duration <= 0 throws and leaves
\* the registry, the id counter and the timer as they were.
C4_NonPositiveDurationRejected ==
  [][ ( \/ \E p \in FlashPositions, s \in Styles, o \in FlashOptions :
             FlashDefaults(s, o).duration <= 0 /\ createFlash(p, s, o)
        \/ \E p \in FadePositions, s \in Styles, o \in FadeOptions :
             FadeDefaults(s, o).duration <= 0 /\ createFade(p, s, o)
        \/ \E p \in RainbowPositions, s \in Styles, o \in RainbowOptions :
             RainbowDefaults(s, o).duration <= 0 /\ createRainbow(p, s, o) )
      => ( lastCall'.threw /\ animations' = animations
           /\ idCounter' = idCounter /\ timer' = timer ) ]_vars

\* C5: stopAnimation(id) never throws, removes no entry other than id's,
\* and for an id that is not registered (never issued, retired, or already
\* stopped) leaves the registry as it is.
C5_StopAnimationIdempotent ==
  [][ \A n \in 1..MaxAnims :
        stopAnimation(AnimId(n)) =>
          /\ ~lastCall'.threw
          /\ AnimId(n) \notin Ids(animations')
          /\ \A i \in 1..Len(animations) :
               animations[i].id # AnimId(n) =>
                 \E j \in 1..Len(animations') : animations'[j] = animations[i]
          /\ AnimId(n) \notin Ids(animations) => animations' = animations ]_vars

\* C5: stopAnimation has just been called with an id that was not
\* registered, while another animation is registered
C5_StoppedUnknownId ==
  lastCall.unknownId /\ Len(animations) > 0 /\ idCounter > 2

\* C6: a tick makes at most one executeBatch call; it makes one exactly
\* when some registered animation has no last-sent color or a computed
\* color different from it; the batch holds at most one frame per
\* registered animation and no other frame.
C6_OneBatchPerTick ==
  [][ tick =>
        /\ Len(calls') <= 1
        /\ Len(calls') = 1 <=>
             \E i \in 1..Len(animations) :
               \/ "lastSentBg" \notin DOMAIN animations[i]
               \/ toUpperCase(animations[i].lastSentBg)
                    # toUpperCase(NextBg(animations[i], now))
        /\ \A c \in 1..Len(calls') :
             /\ Len(calls'[c]) > 0
             /\ \A k \in 1..Len(calls'[c]) :
                  calls'[c][k].anim \in Ids(animations)
             /\ \A id \in Ids(animations) :
                  Cardinality(FramesFor(calls', id)) <= 1 ]_vars

\* C6: the last tick put the frames of two animations into one batch
C6_TwoFramesOneBatch == Len(calls) = 1 /\ Len(calls[1]) = 2

\* C7: a tick puts a frame of an animation into its batch only if the
\* animation has no last-sent color or the computed color differs from it
\* ignoring case; a fade with identical fromColor and toColor that has a
\* last-sent color gets no further frame, so it is written at most once.
C7_NoOpSuppression ==
  [][ tick =>
        \A i \in 1..Len(animations) :
          LET anim == animations[i]
              sent == FramesFor(calls', anim.id) # {}
          IN  /\ sent => \/ "lastSentBg" \notin DOMAIN anim
                         \/ toUpperCase(anim.lastSentBg)
                              # toUpperCase(NextBg(anim, now))
              /\ ( /\ anim.type = "fade"
                   /\ anim.options.fromColor = anim.options.toColor
                   /\ "lastSentBg" \in DOMAIN anim ) => ~sent ]_vars

\* C7: a fade with identical endpoints has been written once and a later
\* tick has sent nothing for it
C7_FadeWrittenOnce ==
  /\ calls = << >>
  /\ \E i \in 1..Len(animations) :
       /\ animations[i].type = "fade"
       /\ animations[i].options.fromColor = animations[i].options.toColor
       /\ "lastSentBg" \in DOMAIN animations[i]

\* C8 as claimed: the tick that finds a non-looping animation with
\* elapsed >= duration removes it, computes its frame at progress 1, and
\* puts that frame into its batch when the color differs from the
\* last-sent color.
C8_RetiredWithFinalFrame ==
  [][ tick =>
        \A i \in 1..Len(animations) :
          LET anim == animations[i]
              p    == Progress(anim, now)
          IN  (~anim.options.loop /\ now - anim.startTime >= anim.options.duration)
                => /\ anim.id \notin Ids(animations')
                   /\ p[2] # 0 /\ p[1] = p[2]
                   /\ ( \/ "lastSentBg" \notin DOMAIN anim
                        \/ toUpperCase(anim.lastSentBg)
                             # toUpperCase(NextBg(anim, now)) )
                        => \E f \in FramesFor(calls', anim.id) :
                             calls'[f[1]][f[2]].data.bgcolor = NextBg(anim, now) ]_vars

\* the color last dispatched for an animation once a tick has visited it
LastDispatched(anim, callSeq) ==
  IF FramesFor(callSeq, anim.id) # {}
  THEN LET f == CHOOSE f \in FramesFor(callSeq, anim.id) : TRUE
       IN  callSeq[f[1]][f[2]].data.bgcolor
  ELSE anim.lastSentBg

\* a flash between a black base and white with intervals 2
IsBlackWhiteFlash(anim) ==
  /\ anim.type = "flash"
  /\ anim.options.intervals = 2
  /\ anim.options.flashColor = White
  /\ Opt(anim.originalStyle, "bgcolor", Black) = Black

\* C9 as claimed: the color a tick computes for a flash with intervals 2
\* at progress 0 and at progress 1 is the base color; a non-looping
\* black/white flash of 1000 ms is removed by the tick at or after 1000 ms
\* and its last dispatched color is #000000.
C9_FlashReturnsToBase ==
  [][ tick =>
        \A i \in 1..Len(animations) :
          LET anim == animations[i]
              p    == Progress(anim, now)
          IN  (IsBlackWhiteFlash(anim) /\ p[2] # 0 /\ (p[1] = 0 \/ p[1] = p[2]))
                => /\ NextBg(anim, now) = Black
                   /\ (~anim.options.loop /\ p[1] = p[2])
                        => /\ anim.id \notin Ids(animations')
                           /\ LastDispatched(anim, calls') = Black ]_vars

\* C9 as amended: the color a tick computes for a black/white flash with
\* intervals 2 is the half-way mix, #808080 at progress 0 and #7F7F7F at
\* progress 1; the non-looping flash is removed by the tick at or after its
\* duration and its last dispatched color is #7F7F7F.
C9_FlashEndsHalfway ==
  [][ tick =>
        \A i \in 1..Len(animations) :
          LET anim == animations[i]
              p    == Progress(anim, now)
          IN  (IsBlackWhiteFlash(anim) /\ p[2] # 0)
                => /\ p[1] = 0 => NextBg(anim, now) = Gray80
                   /\ p[1] = p[2] => NextBg(anim, now) = Gray7F
                   /\ (~anim.options.loop /\ p[1] = p[2])
                        => /\ anim.id \notin Ids(animations')
                           /\ LastDispatched(anim, calls') = Gray7F ]_vars

\* C9: the last tick sent #7F7F7F for an animation and removed it
C9_FlashRetiredGray ==
  /\ Len(calls) = 1
  /\ \E k \in 1..Len(calls[1]) :
       /\ calls[1][k].data.bgcolor = Gray7F
       /\ calls[1][k].anim \notin Ids(animations)

\* C10: a failed request of a style update leaves the timer, its pending
\* expiry and the registry as they are (so the next tick runs as it would
\* have), makes no call end by throwing, and does not end the batch: the
\* operations after the failed one are still run.
C10_TransportFailureContained ==
  [][ \A i \in 1..Len(batches) :
        RequestFails(i) =>
          /\ timer' = timer /\ due' = due
          /\ animations' = animations
          /\ lastCall' = lastCall /\ ~lastCall'.threw
          /\ Len(batches[i].ops) > 1 =>
               /\ Len(batches') = Len(batches)
               /\ batches'[i].ops = Tail(batches[i].ops) ]_vars

\* C10: a request has failed while animations are registered and the timer
\* is set, and the batch goes on
C10_FailureWhileAnimating ==
  /\ timer /\ Len(animations) > 0
  /\ \E i \in 1..Len(batches) : batches[i].errors > 0

\* the entries of a sequence of animations that a tick at the present
\* time sends a frame for
SentBy(entries) ==
  SelectSeq(entries, LAMBDA a : \/ "lastSentBg" \notin DOMAIN a
                                \/ toUpperCase(a.lastSentBg)
                                     # toUpperCase(NextBg(a, now)))

\* the entries of a sequence of animations that a tick at the present
\* time does not retire
KeptBy(entries) ==
  SelectSeq(entries, LAMBDA a : a.options.loop
                                \/ now - a.startTime < a.options.duration)

\* C11: the registered ids are pairwise distinct and were all issued
\* (their numbers lie below the counter); the counter never decreases; and
\* a step returns an id exactly when it takes the counter's value for it
\* and moves the counter on, so that no returned id is returned again.
C11_IdsNeverReused ==
  /\ [](\A i, j \in 1..Len(animations) :
         /\ animations[i].id[2] < idCounter
         /\ animations[i].id = animations[j].id => i = j)
  /\ [][ /\ idCounter' >= idCounter
         /\ (lastCall'.returned # << >> /\ lastCall' # lastCall)
              => /\ lastCall'.returned = AnimId(idCounter)
                 /\ idCounter' = idCounter + 1
                 /\ Len(animations') = Len(animations) + 1
         /\ idCounter' # idCounter
              => lastCall'.returned = AnimId(idCounter) ]_vars

\* C11: the first animation was stopped and a second one created: the
\* registry holds one entry, and its id is the second id
C11_SecondIdAfterStop ==
  /\ idCounter = 3
  /\ Len(animations) = 1
  /\ lastCall.returned = AnimId(2)
  /\ animations[1].id = AnimId(2)

\* C12: a builder makes no executeBatch call and leaves the invocations
\* in flight and the cache alone; the entry it registers has no last-sent
\* color and the timer is set afterwards; and a tick sends a frame for
\* every registered animation that has no last-sent color.
C12_FirstFrameByTick ==
  [][ /\ idCounter' # idCounter =>
           /\ calls' = calls /\ batches' = batches
           /\ buttonStateCache' = buttonStateCache
           /\ timer'
           /\ "lastSentBg" \notin DOMAIN animations'[Len(animations')]
           /\ animations'[Len(animations')].id = lastCall'.returned
      /\ tick =>
           \A i \in 1..Len(animations) :
             "lastSentBg" \notin DOMAIN animations[i]
               => FramesFor(calls', animations[i].id) # {} ]_vars

\* C12: an animation created while the clock stood at 500 ms has had its
\* first frame sent by the tick that followed
C12_FirstFrameSent ==
  \E i \in 1..Len(animations) :
    /\ animations[i].startTime > 0
    /\ "lastSentBg" \in DOMAIN animations[i]
    /\ FramesFor(calls, animations[i].id) # {}

\* C15: a tick visits the animations registered when it starts once each
\* in insertion order: its batch holds the frames of the entries whose
\* color changed, in registry order, the registry afterwards holds the
\* entries that are not retired, in registry order, and every entry that
\* got a frame has that frame's color as its last-sent color.
C15_VisitedInRegistryOrder ==
  [][ (tick /\ Len(animations) > 0) =>
        LET sent == SentBy(animations)
            kept == KeptBy(animations)
        IN  /\ Len(sent) = 0 => calls' = << >>
            /\ Len(sent) > 0 =>
                 /\ Len(calls') = 1
                 /\ Len(calls'[1]) = Len(sent)
                 /\ \A k \in 1..Len(sent) :
                      /\ calls'[1][k].anim = sent[k].id
                      /\ calls'[1][k].data.bgcolor = NextBg(sent[k], now)
            /\ Len(animations') = Len(kept)
            /\ \A k \in 1..Len(kept) :
                 /\ animations'[k].id = kept[k].id
                 /\ kept[k].id \in Ids(sent)
                      => animations'[k].lastSentBg = NextBg(kept[k], now) ]_vars

\* C15: the last tick retired the first of two animations and sent a
\* frame for both, the retired one's first
C15_RetiredFirstOfTwo ==
  /\ Len(calls) = 1
  /\ Len(calls[1]) = 2
  /\ calls[1][1].anim \notin Ids(animations)
  /\ calls[1][2].anim \in Ids(animations)

\* C17: every frame a tick sends is the animation's base style with the
\* background color replaced: it has the base style's fields and bgcolor,
\* and every field but bgcolor has the base style's value; and no step
\* changes the base style of a registered animation.
C17_BaseStylePreserved ==
  [][ /\ tick =>
           \A i \in 1..Len(animations) :
             \A f \in FramesFor(calls', animations[i].id) :
               LET data == calls'[f[1]][f[2]].data
                   base == animations[i].originalStyle
               IN  /\ DOMAIN data = DOMAIN base \cup {"bgcolor"}
                   /\ \A k \in DOMAIN base \ {"bgcolor"} : data[k] = base[k]
      /\ \A i \in 1..Len(animations), j \in 1..Len(animations') :
           animations[i].id = animations'[j].id
             => animations'[j].originalStyle = animations[i].originalStyle ]_vars

\* C17: a frame with a color other than the base color has been sent with
\* the base style's text, text color and size
C17_FrameCarriesBaseFields ==
  /\ Len(calls) = 1
  /\ \E k \in 1..Len(calls[1]) :
       /\ calls[1][k].data.bgcolor = Gray80
       /\ calls[1][k].data.text = << "H", "i" >>
       /\ calls[1][k].data.color = White
       /\ calls[1][k].data.size = 18

\* C16: an Animator never has more than one interval that is not
\* cleared: there is one while the timer is set and none otherwise, and a
\* builder called while the timer is set makes no interval.
C16_OneTimer ==
  /\ [](intervals = IF timer THEN 1 ELSE 0)
  /\ [][(idCounter' # idCounter /\ timer) => intervals' = intervals]_vars

\* C16: two animations are registered and one interval serves them
C16_TwoAnimationsOneTimer ==
  Len(animations) = 2 /\ timer /\ intervals = 1

\* C18: with caching enabled, an updateButtonStyle call whose every field
\* equals the cached value of the position sends no request and emits no
\* event, and a call with a field that differs from the cached value (or
\* is not cached) sends a request.
C18_UnchangedUpdateSkipped ==
  [][ \A p \in UpdatePositions, s \in UpdateStyles :
        (updateButtonStyle(p, s) /\ cachingEnabled) =>
          LET cached == IF getButtonKey(p) \in DOMAIN buttonStateCache
                        THEN buttonStateCache[getButtonKey(p)]
                        ELSE [none \in {} |-> << >>]
              same   == \A k \in DOMAIN s : k \in DOMAIN cached /\ cached[k] = s[k]
          IN  /\ same => (requests' = requests /\ events' = events
                          /\ ~lastStyleCall'.requested)
              /\ ~same => ( /\ Len(requests') = Len(requests) + 1
                            /\ requests'[Len(requests')].data = s
                            /\ lastStyleCall'.requested ) ]_vars

\* C18: after an update has succeeded, an update with the cached values
\* was made with caching enabled and sent nothing
C18_RepeatSentNothing ==
  /\ events > 0
  /\ lastStyleCall.n > 1
  /\ lastStyleCall.caching
  /\ ~lastStyleCall.requested
  /\ requests = << >>

\* C19: while caching is disabled the cache is empty; setCachingEnabled
\* leaves cachingEnabled (the value isCachingEnabled returns) at its
\* argument, and no other step changes it; and an updateButtonStyle call
\* made while caching is disabled sends a request.
C19_DisabledCacheStaysEmpty ==
  /\ [](~cachingEnabled => DOMAIN buttonStateCache = {})
  /\ [][ /\ \A e \in BOOLEAN : setCachingEnabled(e) => cachingEnabled' = e
         /\ cachingEnabled' # cachingEnabled => setCachingEnabled(cachingEnabled')
         /\ \A p \in UpdatePositions, s \in UpdateStyles :
              (updateButtonStyle(p, s) /\ ~cachingEnabled) =>
                /\ Len(requests') = Len(requests) + 1
                /\ lastStyleCall'.requested ]_vars

\* C19: with caching disabled, a second update with the same style was
\* sent after the first had succeeded
C19_RepeatSentWhileDisabled ==
  /\ ~cachingEnabled
  /\ events > 0
  /\ lastStyleCall.n > 1
  /\ ~lastStyleCall.caching
  /\ lastStyleCall.requested
  /\ \A k \in 1..Len(requests) : requests[k].data = lastStyleCall.style

\* C13: while the animation started by an animate() call that was given an
\* inline predicate or boolean is running, a poll loop re-evaluates the
\* condition and will stop the animation when it is false or throws.
C13_InlinePredicateWatched ==
  [](( run # Null /\ run.inline # "none" )
       => \E h \in 1..Len(handles) : ENABLED Poll(h))

\* C14: every call of the stop function returned by a looping animate()
\* returns without throwing, leaves watcherStop set (which ends the poll
\* loop), leaves the animation of the call unregistered and every other
\* animation registered; a call after the first leaves registry, id counter
\* and watcherStop as they are, and the one thing it can change is the
\* timer, which it stops when the registry is empty.
C14_StopFunction ==
  [][ \A h \in 1..Len(handles) :
        callStop(h) =>
          /\ ~lastCall'.threw
          /\ handles'[h].watcherStop
          /\ handles[h].id \notin Ids(animations')
          /\ \A i \in 1..Len(animations) :
               animations[i].id # handles[h].id =>
                 \E j \in 1..Len(animations') : animations'[j] = animations[i]
          /\ handles[h].stopCalls >= 1 =>
               /\ animations' = animations
               /\ idCounter' = idCounter
               /\ handles[h].watcherStop
               /\ timer' # timer => (Len(animations) = 0 /\ ~timer') ]_vars

\* C14: a call of the stop function after the first changes nothing.
C14_LaterCallsChangeNothing ==
  [][ \A h \in 1..Len(handles) :
        (callStop(h) /\ handles[h].stopCalls >= 1) =>
          /\ ~lastCall'.threw
          /\ UNCHANGED << animations, idCounter, timer, intervals, due >>
          /\ handles'[h].watcherStop = handles[h].watcherStop ]_vars

\* C14: a stop function has been called twice, the second time while
\* another animation was registered
C14_StoppedTwice ==
  \E h \in 1..Len(handles) :
    /\ handles[h].stopCalls >= 2
    /\ lastCall.unknownId
    /\ handles[h].id \notin Ids(animations)
    /\ Len(animations) > 0

\* C20: once apply() has been called on a chain whose condition, as set by
\* the last of when, unless, whenAsync and unlessAsync called on it,
\* evaluates to false, apply() makes no request.
C20_DisabledChainSendsNothing ==
  []( ( chain.phase # "building" /\ chain.last = "false" ) => chain.sent = 0 )

\* the characters of a string are hex digits
IsHexDigits(str) == \A i \in 1..Len(str) : IsHexChar(str[i])

\* '#' and six uppercase hex digits
IsNormalHex(str) ==
  /\ Len(str) = 7
  /\ str[1] = "#"
  /\ \A i \in 2..7 : \E k \in 1..16 : UpperHex[k] = str[i]

\* a finite channel rounded and clamped to 0..255, as two uppercase digits
ChannelDigits(n) ==
  LET k == IF IsInfinite(n) THEN (IF n[1] > 0 THEN 255 ELSE 0)
           ELSE IF 2 * n[1] + n[2] < 0 THEN 0
           ELSE IF (2 * n[1] + n[2]) \div (2 * n[2]) > 255 THEN 255
           ELSE (2 * n[1] + n[2]) \div (2 * n[2])
  IN  << UpperHex[(k \div 16) + 1], UpperHex[(k % 16) + 1] >>

\* C21: for a string of six hex digits with or without '#', rgbToHex of
\* the channels of hexToRgb is '#' and the six digits in upper case; for
\* every other string hexToRgb is null; and rgbToHex of any three numbers
\* is '#' and six uppercase hex digits, each pair the channel rounded and
\* clamped to 0..255.
C21_HexRoundTrip ==
  /\ helperCall.fn = "hexToRgb" =>
       \E body \in { IF Len(helperCall.hex) > 0 /\ helperCall.hex[1] = "#"
                      THEN Tail(helperCall.hex) ELSE helperCall.hex } :
         IF Len(body) = 6 /\ IsHexDigits(body)
         THEN helperCall.back = << "#" >> \o toUpperCase(body)
         ELSE helperCall.rgb = Null
  /\ helperCall.fn = "rgbToHex" =>
       /\ IsNormalHex(helperCall.hex)
       /\ \A n \in { helperCall.r, helperCall.g, helperCall.b } :
            ~IsNaN(n) =>
              \E at \in { 2, 4, 6 } :
                SubSeq(helperCall.hex, at, at + 1) = ChannelDigits(n)

\* a color of six hex digits as '#' and the digits in upper case
Normalised(hex) ==
  << "#" >> \o toUpperCase(IF hex[1] = "#" THEN Tail(hex) ELSE hex)

\* C22: for colors A and B of six hex digits, mixColors(A, B, 0) is A and
\* mixColors(A, B, 1) is B, both normalised, and the mix of black and
\* white at 0.5 is #7F7F7F or #808080.
C22_MixEndpoints ==
  helperCall.fn = "mixColors" =>
    /\ helperCall.t = Int2Num(0) => helperCall.hex = Normalised(helperCall.hexA)
    /\ helperCall.t = Int2Num(1) => helperCall.hex = Normalised(helperCall.hexB)
    /\ ( helperCall.t = << 1, 2, 0 >> /\ Normalised(helperCall.hexA) = Black
         /\ Normalised(helperCall.hexB) = White )
         => helperCall.hex \in { Gray7F, Gray80 }

\* C22: black and lower-case white without '#' were mixed at 1 and gave
\* #FFFFFF
C22_MixedToLowerWhite ==
  /\ helperCall.fn = "mixColors"
  /\ helperCall.hexA = Black
  /\ helperCall.hexB = LowerWhite
  /\ helperCall.t = Int2Num(1)
  /\ helperCall.hex = White

\* C23: an Animator constructed with the integer fps f has the frame rate
\* f clamped to 1..60 and the tick interval round(1000 / frame rate), a
\* tie rounding up.
C23_FrameRateClamped ==
  helperCall.fn = "Animator" =>
    /\ helperCall.fps = ( IF helperCall.requested < 1 THEN 1
                          ELSE IF helperCall.requested > 60 THEN 60
                          ELSE helperCall.requested )
    /\ 2 * helperCall.tickInterval * helperCall.fps - helperCall.fps <= 2000
    /\ 2000 < 2 * helperCall.tickInterval * helperCall.fps + helperCall.fps

\* C23: an Animator was constructed with fps 0 and ticks every 1000 ms
C23_ZeroFpsRaised ==
  /\ helperCall.fn = "Animator"
  /\ helperCall.requested = 0
  /\ helperCall.fps = 1
  /\ helperCall.tickInterval = 1000


\* C24 as claimed: a tick computes progress as (elapsed mod duration) /
\* duration for a looping animation, so whenever a tick visits a looping
\* fade at an elapsed time that is an exact multiple of its duration, the
\* color it computes for the fade (the entry's last-sent color once the
\* tick is over) is fromColor.
C24_LoopWrapsToFromColor ==
  [][ tick =>
        \A i \in 1..Len(animations) :
          LET anim     == animations[i]
              elapsed  == now - anim.startTime
              duration == anim.options.duration
          IN  ( /\ anim.type = "fade"
                /\ anim.options.loop
                /\ \E k \in 0..MaxAdvances : elapsed = k * duration )
                => \E j \in 1..Len(animations') :
                     /\ animations'[j].id = anim.id
                     /\ animations'[j].lastSentBg
                          = Normalised(anim.options.fromColor) ]_vars

\* C25 as claimed: the tick that finds elapsed >= duration for a rainbow
\* created with loop = false computes the frame of that rainbow from the
\* progress capped at 1, so the color it computes (the color of the frame
\* it puts into the batch, or the last-sent color when it sends none) is
\* the color of the hue floor(1 * 360), not of a hue wrapped modulo the
\* duration.
C25_FinalHueAtProgressOne ==
  [][ tick =>
        \A i \in 1..Len(animations) :
          LET anim == animations[i]
              end  == hslToHex(Int2Num(360), anim.options.saturation,
                               anim.options.lightness)
          IN  ( /\ anim.type = "rainbow"
                /\ ~anim.options.loop
                /\ now - anim.startTime >= anim.options.duration )
                => /\ \A f \in FramesFor(calls', anim.id) :
                        calls'[f[1]][f[2]].data.bgcolor = end
                   /\ FramesFor(calls', anim.id) = {}
                        => /\ "lastSentBg" \in DOMAIN anim
                           /\ colorsEqual(anim.lastSentBg, end) ]_vars

\* the color a tick at the present time computes for a flash that swings
\* `repeats` times in one duration
FlashColorWith(anim, repeats) ==
  mixColors(Opt(anim.originalStyle, "bgcolor", Black), anim.options.flashColor,
            NumMul(<< 1, 2, 0 >>,
                   NumAdd(Int2Num(1), SinTurns(Progress(anim, now), repeats))))

\* a tick computes the color `color` for the entry anim: it is the color
\* of the frame the tick puts into its batch, or the last-sent color when
\* the tick sends no frame for the entry
Computes(anim, color) ==
  /\ \A f \in FramesFor(calls', anim.id) : calls'[f[1]][f[2]].data.bgcolor = color
  /\ FramesFor(calls', anim.id) = {}
       => "lastSentBg" \in DOMAIN anim /\ colorsEqual(anim.lastSentBg, color)

\* a tick computes every flash with the intervals of its entry, a value
\* below 1 counting as 1
FlashUsesIntervals ==
  tick => \A i \in 1..Len(animations) :
            animations[i].type = "flash"
              => Computes(animations[i],
                          FlashColorWith(animations[i],
                                         IF animations[i].options.intervals < 1
                                         THEN 1
                                         ELSE animations[i].options.intervals))

\* C26 as claimed: a flash created without an intervals option, by
\* createFlash or by pulse(), swings 2 times in one duration, and a tick
\* computes every flash with the intervals of its entry, a value below 1
\* counting as 1.
C26_FlashDefaultsToTwo ==
  [][ /\ \A p \in FlashPositions, s \in Styles, o \in BuilderFlashOptions :
           (createFlash(p, s, o) /\ "intervals" \notin DOMAIN o)
             => animations'[Len(animations')].options.intervals = 2
      /\ \A p \in FlashPositions, s \in Styles, o \in PulseOptions :
           (pulse(p, s, o) /\ "intervals" \notin DOMAIN o)
             => animations'[Len(animations')].options.intervals = 2
      /\ FlashUsesIntervals ]_vars

\* C26, amended: a flash created by pulse() without an intervals option
\* swings 2 times in one duration, a flash created by createFlash without
\* one swings 4 times, and a tick computes every flash with the intervals
\* of its entry, a value below 1 counting as 1.
C26_FlashDefaults ==
  [][ /\ \A p \in FlashPositions, s \in Styles, o \in BuilderFlashOptions :
           (createFlash(p, s, o) /\ "intervals" \notin DOMAIN o)
             => animations'[Len(animations')].options.intervals = 4
      /\ \A p \in FlashPositions, s \in Styles, o \in PulseOptions :
           (pulse(p, s, o) /\ "intervals" \notin DOMAIN o)
             => animations'[Len(animations')].options.intervals = 2
      /\ FlashUsesIntervals ]_vars

\* C26: half a second into their 4 seconds, a flash made by createFlash
\* without intervals has been sent halfway between black and white (the
\* sine of 4 swings is back at 0 there), or a flash with intervals below 1
\* has been sent white a quarter into its duration (the top of 1 swing)
C26_DefaultFlashSent ==
  /\ ~due
  /\ \E i \in 1..Len(animations) :
       /\ animations[i].type = "flash"
       /\ ~animations[i].options.loop
       /\ animations[i].options.duration = 4000
       /\ now - animations[i].startTime = 500
       /\ "lastSentBg" \in DOMAIN animations[i]
       /\ animations[i].lastSentBg \in { Gray80, Gray7F }
  /\ \E i \in 1..Len(animations) :
       /\ animations[i].options.intervals < 1
       /\ now - animations[i].startTime = 500
       /\ "lastSentBg" \in DOMAIN animations[i]
       /\ animations[i].lastSentBg = White

\* the string is a color of six hex digits
IsHexColor(c) == hexToRgb(c) # Null

\* the color itself when it is a hex color, black otherwise
OrBlack(c) == IF IsHexColor(c) THEN c ELSE Black

\* the entry with black in place of every color that is no hex color
AsBlack(anim) ==
  [anim EXCEPT !.options.flashColor = OrBlack(@),
               !.options.fromColor = OrBlack(@),
               !.options.toColor = OrBlack(@),
               !.originalStyle.bgcolor = OrBlack(@)]

\* a color the frames of the entry are mixed from is no hex color
HasBadColor(anim) ==
  \/ anim.type = "flash" /\ ~IsHexColor(anim.originalStyle.bgcolor)
  \/ anim.type = "flash" /\ ~IsHexColor(anim.options.flashColor)
  \/ anim.type = "fade" /\ ~IsHexColor(anim.options.fromColor)
  \/ anim.type = "fade" /\ ~IsHexColor(anim.options.toColor)

\* C27: a color string that is no 6-digit hex value, as base background,
\* flashColor, fromColor or toColor, raises no error in a tick: the tick
\* computes the color of every entry as it would with #000000 in place of
\* that string, puts a frame into its batch for every entry that has not
\* been sent a frame before, whatever the colors of the other entries,
\* and leaves the timer running.
C27_BadColorsMixAsBlack ==
  [][ tick =>
        /\ \A i \in 1..Len(animations) :
             /\ Computes(animations[i], NextBg(AsBlack(animations[i]), now))
             /\ "lastSentBg" \notin DOMAIN animations[i]
                  => FramesFor(calls', animations[i].id) # {}
        /\ Len(animations) > 0 => timer'
        /\ lastCall' = lastCall ]_vars

\* C27: one tick has sent a batch with the frame of an animation that has
\* a color that is no hex color, mixed as black, and with the frame of
\* another animation
C27_BadColorFrameInBatch ==
  /\ Len(calls) = 1
  /\ \E i \in 1..Len(animations), j \in 1..Len(animations) :
       /\ i # j
       /\ animations[i].type = "fade"
       /\ HasBadColor(animations[i])
       /\ \E f \in FramesFor(calls, animations[i].id) :
            calls[f[1]][f[2]].data.bgcolor = Gray80
       /\ FramesFor(calls, animations[j].id) # {}

\* C28 as claimed: the base style of an animation is a snapshot taken by
\* the builder, so every frame a tick dispatches carries the text, color
\* and size that a style had when it was passed to a builder, whatever the
\* caller has written to the style object since.
C28_BaseStyleIsSnapshot ==
  [][ tick =>
        \A c \in 1..Len(calls') :
          \A k \in 1..Len(calls'[c]) :
            \E s \in Styles :
              /\ calls'[c][k].data.text = s.text
              /\ calls'[c][k].data.color = s.color
              /\ calls'[c][k].data.size = s.size ]_vars

\* C29: when the timer ticks on, the clock advances and the user makes no
\* further call, the registry comes to hold looping animations only, the
\* timer is stopped in the end when the registry is empty, and no tick
\* removes a looping animation.
C29_NonLoopingRetire ==
  /\ <>[](\A i \in 1..Len(animations) : animations[i].options.loop)
  /\ <>[](Len(animations) = 0 => ~timer)
  /\ [][ tick => \A i \in 1..Len(animations) :
                   animations[i].options.loop
                     => animations[i].id \in Ids(animations') ]_vars

\* C29: animations have been created, every one of them has been retired
\* by a tick, and a later tick has stopped the timer
C29_AllRetiredTimerStopped ==
  /\ idCounter > 1
  /\ Len(animations) = 0
  /\ ~timer
  /\ now > 0

\* C30: an executeBatch invocation runs one operation at a time, the first
\* of those left: a response leaves the list as it is, and both a failure
\* and the end of the pause after a success go on with the next operation
\* of the list, all other invocations untouched; the invocation ends only
\* after the last operation of its list, and a failure throws nothing at
\* the caller.
C30_BatchRunsInOrder ==
  [][ \A i \in 1..Len(batches) :
        /\ RequestSucceeds(i)
             => /\ Len(batches') = Len(batches)
                /\ batches'[i].ops = batches[i].ops
        /\ (RequestFails(i) \/ PauseEnds(i))
             => IF Len(batches[i].ops) > 1
                THEN /\ Len(batches') = Len(batches)
                     /\ batches'[i].ops = Tail(batches[i].ops)
                     /\ \A j \in 1..Len(batches) : j # i => batches'[j] = batches[j]
                ELSE Len(batches') = Len(batches) - 1
        /\ RequestFails(i)
             => /\ lastCall' = lastCall
                /\ Len(batches[i].ops) > 1 => batches'[i].errors = batches[i].errors + 1 ]_vars

\* C30: the first operation of a batch of two has failed and the second
\* has been sent and answered
C30_SecondRanAfterFailure ==
  \E i \in 1..Len(batches) :
    /\ batches[i].errors = 1
    /\ Len(batches[i].ops) = 1
    /\ batches[i].phase = "delay"
    /\ Len(calls) = 1
    /\ Len(calls[1]) = 2
    /\ batches[i].ops[1] = calls[1][2]

\* C31: a style update whose request fails leaves the cache as it is and
\* emits no event; one whose request succeeds emits the event and, in the
\* cache, writes the fields of the update to the state of its button and
\* nothing else: the other fields of that button and the states of all
\* other buttons stay.
C31_PartialUpdateOfCache ==
  [][ \A k \in 1..Len(requests) :
        /\ StyleRequestFails(k)
             => buttonStateCache' = buttonStateCache /\ events' = events
        /\ StyleRequestSucceeds(k)
             => LET key    == getButtonKey(requests[k].position)
                    style  == requests[k].data
                    before == getCachedButtonState(requests[k].position)
                IN  /\ events' = events + 1
                    /\ DOMAIN buttonStateCache' = DOMAIN buttonStateCache \cup {key}
                    /\ \A q \in DOMAIN buttonStateCache \ {key} :
                         buttonStateCache'[q] = buttonStateCache[q]
                    /\ DOMAIN buttonStateCache'[key] = DOMAIN before \cup DOMAIN style
                    /\ \A f \in DOMAIN style : buttonStateCache'[key][f] = style[f]
                    /\ \A f \in DOMAIN before \ DOMAIN style :
                         buttonStateCache'[key][f] = before[f] ]_vars

\* C31: an update of the text alone has succeeded for a button whose
\* cached state holds a background color, while the cache holds the state
\* of another button
C31_TextUpdatedColorKept ==
  /\ events > 1
  /\ getButtonKey(Button(1)) \in DOMAIN buttonStateCache
  /\ getButtonKey(Button(0)) \in DOMAIN buttonStateCache
  /\ buttonStateCache[getButtonKey(Button(0))]
       = [text |-> << "Y", "o" >>, bgcolor |-> Black]

\* C32: makeRequest makes at most `retries` fetch calls; a successful
\* fetch makes it return what that fetch gave, with no fetch after it;
\* when it rejects, the error has code REQUEST_FAILED, it has made exactly
\* `retries` fetch calls, all of them failed, and it has waited once
\* between each two consecutive calls and not after the last.
C32_RetriesThenFails ==
  /\ [](http.phase # "idle" =>
          /\ http.fetches <= http.retries
          /\ http.phase = "returned" =>
               /\ http.result \in Bodies
               /\ http.waits = http.fetches - 1
          /\ http.phase = "rejected" =>
               /\ http.code = "REQUEST_FAILED"
               /\ http.fetches = http.retries
               /\ http.waits = IF http.retries = 0 THEN 0 ELSE http.retries - 1)
  /\ [][ /\ \A b \in Bodies :
              FetchSucceeds(b) => /\ http'.phase = "returned"
                                  /\ http'.result = b
                                  /\ http'.fetches = http.fetches
         /\ http.phase = "returned" => http'.n # http.n ]_vars

\* C32: a makeRequest call with three retries has made three fetch calls
\* and two waits, the second wait of 400 ms, and has rejected
C32_ThreeAttemptsFailed ==
  /\ http.phase = "rejected"
  /\ http.retries = 3
  /\ http.fetches = 3
  /\ http.waits = 2
  /\ http.delay = 400
  /\ http.lastError = "AbortError"

\* C33 as claimed: the frames of a button are handed to the style update
\* in the order the ticks computed them, so no executeBatch invocation has
\* handed over a frame for a button (its current operation) while the
\* invocation of an earlier tick still holds a frame for that button that
\* it has not handed over.
C33_FramesDeliveredInTickOrder ==
  \A i \in 1..Len(batches) :
    \A j \in (i + 1)..Len(batches) :
      \A k \in 2..Len(batches[i].ops) :
        batches[j].ops[1].position # batches[i].ops[k].position

\* C34 as claimed: whenever a tick suppresses the frame of an animation
\* because its color equals the animation's last-sent color, that color
\* is the color of the frame the Animator dispatched last to the button
\* of the animation (the last frame for that button in the batch of the
\* latest tick that dispatched one), also when other animations write to
\* the same button.
C34_SuppressedEqualsLastDispatched ==
  [][ tick =>
        \A i \in 1..Len(animations) :
          LET anim == animations[i]
              sent == IF Len(calls) = 0 THEN << >> ELSE calls[Len(calls)]
              at   == { k \in 1..Len(sent) : sent[k].position = anim.position }
          IN  ( /\ ~Changed(anim, NextBg(anim, now))
                /\ at # {} )
                => \E k \in at :
                     /\ \A m \in at : m <= k
                     /\ colorsEqual(sent[k].data.bgcolor, NextBg(anim, now)) ]_vars

\* C35 as claimed: with caching enabled and several style updates of one
\* button in flight, once all responses have arrived the cached state of
\* the button holds the values of the request issued last, and an update
\* is skipped as a duplicate only when the request sent last for the
\* button carried the same values.
C35_CacheFollowsLastRequest ==
  /\ []( ( /\ requests = << >>
           /\ lastStyleCall.n > 0
           /\ lastStyleCall.requested )
           => LET cached == getCachedButtonState(lastStyleCall.position)
              IN  \A f \in DOMAIN lastStyleCall.style :
                    f \in DOMAIN cached /\ cached[f] = lastStyleCall.style[f] )
  /\ [][ \A p \in UpdatePositions, s \in UpdateStyles :
           ( /\ updateButtonStyle(p, s)
             /\ ~lastStyleCall'.requested
             /\ lastStyleCall.n > 0
             /\ lastStyleCall.requested
             /\ lastStyleCall.position = p )
             => \A f \in DOMAIN s \cap DOMAIN lastStyleCall.style :
                  s[f] = lastStyleCall.style[f] ]_vars

\* C36 as claimed: all getAnimator calls that have returned, those that
\* overlapped before the first resolved included, have returned the same
\* Animator instance, so that one engine alone holds animations and runs
\* a timer.
C36_OneAnimatorPerClient ==
  /\ \A j \in 1..Len(getCalls), k \in 1..Len(getCalls) :
       (getCalls[j].phase = "returned" /\ getCalls[k].phase = "returned")
         => getCalls[j].instance = getCalls[k].instance
  /\ \A a \in 1..Len(engines), b \in 1..Len(engines) :
       (engines[a] > 0 /\ engines[b] > 0) => a = b

\* C37 as claimed: after disconnect() the client stays disconnected until
\* the user calls connect() or sendCommand(): it is not connected, no
\* reconnect timer is pending and no reconnect attempt is in flight.
C37_StaysDisconnected ==
  userDisconnected =>
    /\ ~connected
    /\ reconnectTimer = 0
    /\ \A q \in 1..Len(sequences) : sequences[q].phase # "timer"

\* C38 as claimed: the commands passed to sendCommand are written to the
\* socket in call order, each at most once, those queued while
\* disconnected and those issued right after the connection is
\* established included.
C38_WrittenInCallOrder ==
  \A i \in 1..Len(written), j \in 1..Len(written) :
    i < j => written[i] < written[j]

\* C39 as claimed: a reconnect sequence tries at most reconnectAttempts
\* connections, at most one sequence is active at a time, and a sequence
\* emits 'reconnect-failed' once, after all its attempts, or 'reconnected'
\* once.
C39_OneBoundedSequence ==
  /\ \A q \in 1..Len(sequences) :
       /\ sequences[q].tried <= ReconnectAttempts
       /\ sequences[q].failed + sequences[q].reconnected <= 1
       /\ sequences[q].failed = 1 => sequences[q].tried = ReconnectAttempts
  /\ \A p \in 1..Len(sequences), q \in 1..Len(sequences) :
       (/\ sequences[p].phase \in {"timer", "connecting"}
        /\ sequences[q].phase \in {"timer", "connecting"}) => p = q

=========================================================================
